---- MODULE Spec2Model ----
(***************************************************************************)
(* Model of the type-erased containers of lizmeow/examples.                *)
(*                                                                         *)
(* Sequence containers: vector.c, assign2 cvector.c and the legacy vector  *)
(* (VectorNew, VectorInsert, ...).  One element occupies one slot of the   *)
(* buffer: a slot stands for elem_size bytes, and a pointer into the       *)
(* buffer is the 0-based slot number (byte offset / elem_size).            *)
(* The container record `v` holds the struct fields and the heap facts the *)
(* functions act on:                                                       *)
(*   elems     content of the slots the struct believes it has             *)
(*   n_slots   number of slots of the block malloc/calloc/realloc returned *)
(*   cleaned   the arguments of the cleanup calls made so far, in order    *)
(*   freed     number of free() calls on the element buffer                *)
(*   oob       a write went outside the allocated block                    *)
(*   status    "live", "aborted" (an assert failed or the process          *)
(*             crashed) or "disposed"                                      *)
(*                                                                         *)
(* Associative container: the current cmap (buckets of linked entries),    *)
(* in the record `cm`, with the entries as numbered heap nodes.            *)
(*                                                                         *)
(* The earlier cvector.c (legacy cvec) and cmap.c (legacy cmap, with       *)
(* remove and rehash) are modelled the same way, in `v` and `cm`.          *)
(*                                                                         *)
(* Spec is the machine of vector.c and cvector.c, SpecLegacy the one of    *)
(* the legacy vector, SpecWalk the traversal of cvector.c and the legacy   *)
(* cvec, SpecCMap the machine of the two cmaps and SpecCMapWalk their      *)
(* traversal.                                                              *)
(*                                                                         *)
(* The hash sets (hashset_* and HashSet*, buckets of vectors) are in the   *)
(* record `hs`, machine SpecHashSet.                                       *)
(*                                                                         *)
(* Two legacy cmaps in one process, with the cells as blocks of words and  *)
(* the file-scope pointer cm of cmap.c, are in the record `lc`, machine    *)
(* SpecTwoCMaps.                                                           *)
(*                                                                         *)
(* reassemble.c: `frags` is main's array of fragments, a string being the  *)
(* sequence of its character codes and a NULL entry the empty sequence;    *)
(* SpecReassemble runs reassemble_pass until one fragment is left, and     *)
(* SpecOverlap calls find_max_overlap and merge on two fragments (`ov`).   *)
(*                                                                         *)
(* spellcheck.c: SpecEditDist calls edit_dist on two words and a budget;   *)
(* SpecSpellcheckWord is a run of the program on a single word and         *)
(* SpecSpellcheckDoc a run on a document (main of the cvector version),    *)
(* with the corpus map as the function from words to frequencies, the      *)
(* string blocks of strdup in `heap` and main's position in `sp`.          *)
(***************************************************************************)
EXTENDS Integers, Sequences, FiniteSets, TLC

VARIABLES v, call, abs, n_ins, n_rem, nextId, capacity_hint, walk,
          cm, mcall, iter, nextVal, amap, lc, lcall, lamap,
          hs, hcall, entered,
          frags, input, pass, ov,
          ed, corpus_map, doc, misspellings, leader_board, heap, sp, printed

seqVars == <<v, call, abs, n_ins, n_rem, nextId, capacity_hint, walk>>
mapVars == <<cm, mcall, iter, nextVal, amap>>
lcVars == <<lc, lcall, lamap>>
hsVars == <<hs, hcall, entered>>
raVars == <<frags, input, pass, ov>>
edVars == <<ed>>
progVars == <<corpus_map, doc, misspellings, leader_board, heap, sp, printed>>
scVars == <<edVars, progVars>>
nonSeqVars == <<mapVars, lcVars, hsVars, raVars, scVars>>
nonMapVars == <<seqVars, lcVars, hsVars, raVars, scVars>>
nonLcVars == <<seqVars, mapVars, hsVars, raVars, scVars>>
nonHsVars == <<seqVars, mapVars, lcVars, raVars, scVars>>
nonRaVars == <<seqVars, mapVars, lcVars, hsVars, scVars>>
containerVars == <<seqVars, mapVars, lcVars, hsVars, raVars>>
vars == <<v, call, abs, n_ins, n_rem, nextId, capacity_hint, walk,
          cm, mcall, iter, nextVal, amap, lc, lcall, lamap,
          hs, hcall, entered,
          frags, input, pass, ov,
          ed, corpus_map, doc, misspellings, leader_board, heap, sp, printed>>

\* ---------------------------------------------------------------- bounds
MaxElems == 3       \* number of distinct elements a run hands to the container
MaxHint == 2        \* capacity hints are drawn from 0..MaxHint
NumKeys == 2        \* the client's compare function orders elements by e % NumKeys
MaxVals == 3        \* number of distinct values a run puts into the map
MaxBucketHint == 2  \* bucket-count hints are drawn from 0..MaxBucketHint
MaxValueWords == 2  \* value sizes of the legacy cmaps, in 8-byte words
MaxFrags == 3       \* number of fragments of an input file
MaxTotalLen == 7    \* number of characters of all the fragments of a file
MaxWordLen == 2     \* edit_dist is given words of at most MaxWordLen letters
MaxBudget == 3      \* and budgets from 0..MaxBudget, or MAX_STRING_LENGTH
MaxCorpusLen == 5   \* number of words of a corpus file
MaxDocWords == 2    \* number of words of a document
MaxFragLen == 3     \* find_max_overlap is given fragments of 1..MaxFragLen characters

\* ------------------------------------------------------------- constants
default_internal_length == 10
cvec_default_internal_length == 16
default_alloc_length == 10
CVEC_CAPACITY_HINT == 50
NullSlot == -1
CMAP_CAPACITY_HINT == 1000
REHASH_LOAD == 2
default_capacity == 1023
NULL == 0
MAX_RESULTS == 3
LEADER_BOARD_CAPACITY_HINT == 5
WORDS_CAPACITY_HINT == 50
MAX_STRING_LENGTH == 30
\* size_t arithmetic wraps; the modulus stands for 2^64 (every int of the
\* model is far below it, so 0 - 1 wraps to a value above every index).
SizeTModulus == 1073741824
\* content of a slot no element was written to: the zero bytes calloc fills
\* it with; it also stands for the indeterminate content of a slot that
\* malloc or realloc handed out (elements are numbered from 1, and no
\* operation reads a slot at or beyond logical_length)
Junk == 0


ToSizeT(x) == x % SizeTModulus
Range(s) == {s[i] : i \in 1..Len(s)}

\* ------------------------------------------------------- memory helpers
NewBuffer(n) == [i \in 1..n |-> Junk]

\* realloc(elems, n slots): the old content is kept, new slots are unwritten
realloc(buf, n) == [i \in 1..n |-> IF i <= Len(buf) THEN buf[i] ELSE Junk]

\* memcpy of one element to slot `dst` (0-based); slots outside the believed
\* region are not represented
memcpy(buf, dst, e) == [i \in 1..Len(buf) |-> IF i = dst + 1 THEN e ELSE buf[i]]

\* memmove of n slots from `src` to `dst` (0-based, overlapping allowed)
memmove(buf, dst, src, n) ==
    [i \in 1..Len(buf) |->
        IF i - 1 >= dst /\ i - 1 < dst + n /\ (i - dst + src) \in 1..Len(buf)
        THEN buf[i - dst + src] ELSE buf[i]]

\* a write of n slots starting at slot `dst` leaves the allocated block
WritesOutside(w, dst, n) == n > 0 /\ dst + n > w.n_slots

\* the client's three-way compare function
Key(e) == e % NumKeys
compare(a, b) == IF Key(a) < Key(b) THEN -1 ELSE IF Key(a) > Key(b) THEN 1 ELSE 0

Aborted(w) == [w EXCEPT !.status = "aborted"]

\* an out-of-bounds write is undefined behaviour: the process crashes, or
\* the write lands in memory next to the block and execution goes on
Outcomes(w) == IF w.oob /\ w.status = "live" THEN {w, Aborted(w)} ELSE {w}

\* ================================================================ vector.c
vector_new(free_fun, n_elems_grow_by) ==
    LET il == IF n_elems_grow_by = 0 THEN default_internal_length
              ELSE n_elems_grow_by
    IN [impl |-> "vector", status |-> "live",
        logical_length |-> 0, internal_length |-> il,
        n_elems_grow_by |-> il,
        elems |-> NewBuffer(il), n_slots |-> il,
        free_fun |-> free_fun,
        cleaned |-> <<>>, freed |-> 0, oob |-> FALSE]


\* mutant: the cleanup loop runs over the whole capacity
vector_dispose_all_slots(w) ==
    LET calls == IF w.free_fun
                 THEN [i \in 1..w.internal_length |-> w.elems[i]]
                 ELSE <<>>
    IN [w EXCEPT !.cleaned = w.cleaned \o calls,
                 !.freed = w.freed + 1,
                 !.status = "disposed"]

vector_dispose(w) ==
    LET calls == IF w.free_fun
                 THEN [i \in 1..w.logical_length |-> w.elems[i]]
                 ELSE <<>>
    IN [w EXCEPT !.cleaned = w.cleaned \o calls,
                 !.freed = w.freed + 1,
                 !.status = "disposed"]

vector_length(w) == w.logical_length

vector_nth(w, position) ==
    IF position >= 0 /\ position <= w.logical_length
    THEN [ok |-> TRUE, ret |-> position]
    ELSE [ok |-> FALSE, ret |-> -1]


\* mutant: the cleanup runs after the new element has been copied in
vector_elem_replace_clean_after(w, elem, position) ==
    IF ~(position >= 0 /\ position < w.logical_length) THEN Aborted(w)
    ELSE [w EXCEPT
            !.cleaned = IF w.free_fun THEN Append(w.cleaned, elem) ELSE w.cleaned,
            !.elems = memcpy(w.elems, position, elem),
            !.oob = w.oob \/ WritesOutside(w, position, 1)]

vector_elem_replace(w, elem, position) ==
    IF ~(position >= 0 /\ position < w.logical_length) THEN Aborted(w)
    ELSE [w EXCEPT
            !.cleaned = IF w.free_fun THEN Append(w.cleaned, w.elems[position + 1])
                        ELSE w.cleaned,
            !.elems = memcpy(w.elems, position, elem),
            !.oob = w.oob \/ WritesOutside(w, position, 1)]


\* mutant: the buffer is reallocated but the recorded capacity is not raised
vector_grow_stale_capacity(w) ==
    [w EXCEPT !.elems = realloc(w.elems, w.internal_length + w.n_elems_grow_by),
              !.n_slots = w.internal_length + w.n_elems_grow_by]

vector_grow(w) ==
    [w EXCEPT !.internal_length = w.internal_length + w.n_elems_grow_by,
              !.elems = realloc(w.elems, w.internal_length + w.n_elems_grow_by),
              !.n_slots = w.internal_length + w.n_elems_grow_by]


\* mutant: the elements at and after position are not moved up
vector_insert_noshift(w, elem, position) ==
    IF ~(position >= 0 /\ position <= w.logical_length) THEN Aborted(w)
    ELSE LET g == IF w.logical_length = w.internal_length THEN vector_grow(w) ELSE w
         IN [g EXCEPT
               !.elems = memcpy(g.elems, position, elem),
               !.oob = g.oob \/ WritesOutside(g, position, 1),
               !.logical_length = g.logical_length + 1]

vector_insert(w, elem, position) ==
    IF ~(position >= 0 /\ position <= w.logical_length) THEN Aborted(w)
    ELSE LET g == IF w.logical_length = w.internal_length THEN vector_grow(w) ELSE w
             move_size == g.logical_length - position
         IN [g EXCEPT
               !.elems = memcpy(memmove(g.elems, position + 1, position, move_size),
                                position, elem),
               !.oob = g.oob \/ WritesOutside(g, position + 1, move_size)
                             \/ WritesOutside(g, position, 1),
               !.logical_length = g.logical_length + 1]


\* mutant: the growth happens only once the count has passed the capacity
vector_append_late_grow(w, elem) ==
    LET g == IF w.logical_length > w.internal_length THEN vector_grow(w) ELSE w
    IN [g EXCEPT
          !.elems = memcpy(g.elems, g.logical_length, elem),
          !.oob = g.oob \/ WritesOutside(g, g.logical_length, 1),
          !.logical_length = g.logical_length + 1]

vector_append(w, elem) ==
    LET g == IF w.logical_length = w.internal_length THEN vector_grow(w) ELSE w
    IN [g EXCEPT
          !.elems = memcpy(g.elems, g.logical_length, elem),
          !.oob = g.oob \/ WritesOutside(g, g.logical_length, 1),
          !.logical_length = g.logical_length + 1]

vector_elem_delete(w, position) ==
    IF ~(position >= 0 /\ position < w.logical_length) THEN Aborted(w)
    ELSE LET move_size == w.logical_length - (position + 1)
         IN [w EXCEPT
               !.cleaned = IF w.free_fun THEN Append(w.cleaned, w.elems[position + 1])
                           ELSE w.cleaned,
               !.elems = memmove(w.elems, position, position + 1, move_size),
               !.oob = w.oob \/ WritesOutside(w, position, move_size),
               !.logical_length = w.logical_length - 1]

\* qsort orders the live elements by the compare function; the order of
\* elements that compare equal is unspecified, so every ordered arrangement
\* is a possible result.  An arrangement is a sequence p of the indices
\* 1..n: the element at (1-based) index i afterwards is the old element p[i].
RECURSIVE Arrangements(_)
Arrangements(S) ==
    IF S = {} THEN {<<>>}
    ELSE UNION {{<<x>> \o p : p \in Arrangements(S \ {x})} : x \in S}

Ordered(s) == \A i \in 1..(Len(s) - 1) : compare(s[i], s[i + 1]) <= 0

qsort(buf, nmemb) ==
    {p \in Arrangements(1..nmemb) : Ordered([i \in 1..nmemb |-> buf[p[i]]])}

Permute(buf, p) == [i \in 1..Len(buf) |-> IF i <= Len(p) THEN buf[p[i]] ELSE buf[i]]


\* mutant: the elements are left in the order they were in
vector_sort_unsorted(w, p) == w

vector_sort(w, p) == [w EXCEPT !.elems = Permute(w.elems, p)]

\* lfind: linear scan of nmemb slots from slot `base`; the slot found or -1
RECURSIVE lfind(_, _, _, _)
lfind(key, buf, base, nmemb) ==
    IF nmemb <= 0 THEN -1
    ELSE IF compare(key, buf[base + 1]) = 0 THEN base
    ELSE lfind(key, buf, base + 1, nmemb - 1)

\* bsearch as the C library implements it: halving of [l, u) over nmemb slots
\* starting at slot `base`; the slot found or -1
RECURSIVE bsearch_range(_, _, _, _, _)
bsearch_range(key, buf, base, l, u) ==
    IF l >= u THEN -1
    ELSE LET idx == (l + u) \div 2
             c == compare(key, buf[base + idx + 1])
         IN IF c < 0 THEN bsearch_range(key, buf, base, l, idx)
            ELSE IF c > 0 THEN bsearch_range(key, buf, base, idx + 1, u)
            ELSE base + idx

bsearch(key, buf, base, nmemb) == bsearch_range(key, buf, base, 0, nmemb)


vector_search(w, key, start_index, is_sorted) ==
    IF ~(start_index >= 0) THEN [ok |-> FALSE, ret |-> -1]
    ELSE IF w.logical_length = 0 /\ ~(start_index = 0) THEN [ok |-> FALSE, ret |-> -1]
    ELSE IF w.logical_length # 0 /\ ~(start_index < w.logical_length)
         THEN [ok |-> FALSE, ret |-> -1]
    ELSE LET nmemb == w.logical_length - start_index
         IN [ok |-> TRUE,
             ret |-> IF is_sorted THEN bsearch(key, w.elems, start_index, nmemb)
                     ELSE lfind(key, w.elems, start_index, nmemb)]

\* =============================================================== cvector.c
\* calloc(0, elem_size) may return NULL (the assert then fails) or a block
\* of no slots: `calloc_null` selects the outcome.
cvec_create(capacity_hint_arg, fn, calloc_null) ==
    LET il == IF capacity_hint_arg = 0 THEN cvec_default_internal_length
              ELSE capacity_hint_arg
    IN [impl |-> "cvec",
        status |-> IF capacity_hint_arg = 0 /\ calloc_null THEN "aborted" ELSE "live",
        logical_length |-> 0, internal_length |-> il,
        elems |-> NewBuffer(il), n_slots |-> capacity_hint_arg,
        free_fun |-> fn,
        cleaned |-> <<>>, freed |-> 0, cv_freed |-> 0, oob |-> FALSE]

cvec_dispose(w) ==
    LET calls == IF w.free_fun
                 THEN [i \in 1..w.logical_length |-> w.elems[i]]
                 ELSE <<>>
    IN [w EXCEPT !.cleaned = w.cleaned \o calls,
                 !.freed = w.freed + 1,
                 !.cv_freed = w.cv_freed + 1,
                 !.status = "disposed"]

cvec_count(w) == w.logical_length

\* index is an int, logical_length a size_t: the comparison is unsigned
cvec_nth(w, index) ==
    IF index >= 0 /\ ToSizeT(index) <= ToSizeT(w.logical_length - 1)
    THEN [ok |-> TRUE, ret |-> index]
    ELSE [ok |-> FALSE, ret |-> -1]


\* mutant: the capacity grows by one slot
cvec_grow_by_one(w) ==
    [w EXCEPT !.internal_length = w.internal_length + 1,
              !.elems = realloc(w.elems, w.internal_length + 1),
              !.n_slots = w.internal_length + 1]

cvec_grow(w) ==
    [w EXCEPT !.internal_length = w.internal_length * 2,
              !.elems = realloc(w.elems, w.internal_length * 2),
              !.n_slots = w.internal_length * 2]

cvec_insert(w, addr, index) ==
    IF ~(index >= 0 /\ ToSizeT(index) <= w.logical_length) THEN Aborted(w)
    ELSE LET g == IF w.logical_length = w.internal_length THEN cvec_grow(w) ELSE w
             move_size == g.logical_length - index
         IN [g EXCEPT
               !.elems = memcpy(memmove(g.elems, index + 1, index, move_size),
                                index, addr),
               !.oob = g.oob \/ WritesOutside(g, index + 1, move_size)
                             \/ WritesOutside(g, index, 1),
               !.logical_length = g.logical_length + 1]

cvec_append(w, addr) ==
    LET g == IF w.logical_length = w.internal_length THEN cvec_grow(w) ELSE w
    IN [g EXCEPT
          !.elems = memcpy(g.elems, g.logical_length, addr),
          !.oob = g.oob \/ WritesOutside(g, g.logical_length, 1),
          !.logical_length = g.logical_length + 1]

cvec_elem_replace(w, addr, index) ==
    IF ~(index >= 0 /\ ToSizeT(index) < w.logical_length) THEN Aborted(w)
    ELSE [w EXCEPT
            !.cleaned = IF w.free_fun THEN Append(w.cleaned, w.elems[index + 1])
                        ELSE w.cleaned,
            !.elems = memcpy(w.elems, index, addr),
            !.oob = w.oob \/ WritesOutside(w, index, 1)]

cvec_elem_remove(w, position) ==
    IF ~(position >= 0 /\ ToSizeT(position) < w.logical_length) THEN Aborted(w)
    ELSE LET move_size == w.logical_length - (position + 1)
         IN [w EXCEPT
               !.cleaned = IF w.free_fun THEN Append(w.cleaned, w.elems[position + 1])
                           ELSE w.cleaned,
               !.elems = memmove(w.elems, position, position + 1, move_size),
               !.oob = w.oob \/ WritesOutside(w, position, move_size),
               !.logical_length = w.logical_length - 1]

cvec_search(w, key, start, sorted) ==
    IF ~(start >= 0) THEN [ok |-> FALSE, ret |-> -1]
    ELSE IF w.logical_length = 0 /\ ~(start = 0) THEN [ok |-> FALSE, ret |-> -1]
    ELSE IF w.logical_length # 0 /\ ~(ToSizeT(start) < w.logical_length)
         THEN [ok |-> FALSE, ret |-> -1]
    ELSE LET nmemb == w.logical_length - start
         IN [ok |-> TRUE,
             ret |-> IF sorted THEN bsearch(key, w.elems, start, nmemb)
                     ELSE lfind(key, w.elems, start, nmemb)]

cvec_sort(w, p) == [w EXCEPT !.elems = Permute(w.elems, p)]

\* the pointers cvec_first and cvec_next return are slot numbers; NULL is
\* NullSlot
cvec_first(w) == IF w.logical_length = 0 THEN NullSlot ELSE 0

\* mutant: the traversal stops one element early
cvec_next_stops_early(w, prev) ==
    LET last_elemp == w.logical_length - 2
    IN IF prev = last_elemp THEN NullSlot ELSE prev + 1

cvec_next(w, prev) ==
    LET last_elemp == w.logical_length - 1
    IN IF prev = last_elemp THEN NullSlot ELSE prev + 1

\* ===================================================== legacy vector (Vector*)
VectorNew(freeFn, initialAllocation) ==
    LET al == IF initialAllocation = 0 THEN default_alloc_length
              ELSE initialAllocation
    IN [impl |-> "Vector", status |-> "live",
        logical_length |-> 0, alloc_length |-> al,
        grow_by_length |-> al,
        elems |-> NewBuffer(al), n_slots |-> al,
        free_fun |-> freeFn,
        cleaned |-> <<>>, freed |-> 0, oob |-> FALSE]

VectorDispose(w) ==
    IF ~w.free_fun
    THEN [w EXCEPT !.freed = w.freed + 1, !.status = "disposed"]
    ELSE [w EXCEPT !.cleaned = w.cleaned \o [i \in 1..w.logical_length |-> w.elems[i]],
                   !.status = "disposed"]

VectorLength(w) == w.logical_length

VectorNth(w, position) ==
    IF position >= 0 /\ position <= w.logical_length
    THEN [ok |-> TRUE, ret |-> position]
    ELSE [ok |-> FALSE, ret |-> -1]

VectorReplace(w, elemAddr, position) ==
    IF ~(position >= 0 /\ position < w.logical_length) THEN Aborted(w)
    ELSE [w EXCEPT
            !.cleaned = IF w.free_fun THEN Append(w.cleaned, w.elems[position + 1])
                        ELSE w.cleaned,
            !.elems = memcpy(w.elems, position, elemAddr),
            !.oob = w.oob \/ WritesOutside(w, position, 1)]

legacy_vector_grow(w) ==
    [w EXCEPT !.alloc_length = w.alloc_length + w.grow_by_length,
              !.elems = realloc(w.elems, w.alloc_length + w.grow_by_length),
              !.n_slots = w.alloc_length + w.grow_by_length]

VectorInsert(w, elemAddr, position) ==
    IF ~(position >= 0 /\ position <= w.logical_length) THEN Aborted(w)
    ELSE LET g == IF w.logical_length = w.alloc_length THEN legacy_vector_grow(w) ELSE w
             move_size == g.logical_length - position
         IN [g EXCEPT
               !.elems = memcpy(memmove(g.elems, position + 1, position, move_size),
                                position, elemAddr),
               !.oob = g.oob \/ WritesOutside(g, position + 1, move_size)
                             \/ WritesOutside(g, position, 1),
               !.logical_length = g.logical_length + 1]

VectorAppend(w, elemAddr) ==
    LET g == IF w.logical_length = w.alloc_length THEN legacy_vector_grow(w) ELSE w
    IN [g EXCEPT
          !.elems = memcpy(g.elems, g.logical_length, elemAddr),
          !.oob = g.oob \/ WritesOutside(g, g.logical_length, 1),
          !.logical_length = g.logical_length + 1]

VectorDelete(w, position) ==
    IF ~(position >= 0 /\ position < w.logical_length) THEN Aborted(w)
    ELSE LET move_size == w.logical_length - (position + 1)
         IN [w EXCEPT
               !.cleaned = IF w.free_fun THEN Append(w.cleaned, w.elems[position + 1])
                           ELSE w.cleaned,
               !.elems = memmove(w.elems, position, position + 1, move_size),
               !.oob = w.oob \/ WritesOutside(w, position, move_size),
               !.logical_length = w.logical_length - 1]

VectorSort(w, p) == [w EXCEPT !.elems = Permute(w.elems, p)]

\* my_lfind of the legacy vector: linear scan of num slots from slot `base`
RECURSIVE my_lfind(_, _, _, _)
my_lfind(key, buf, base, num) ==
    IF num <= 0 THEN -1
    ELSE IF compare(key, buf[base + 1]) = 0 THEN base
    ELSE my_lfind(key, buf, base + 1, num - 1)

VectorSearch(w, key, startIndex, isSorted) ==
    IF ~(startIndex >= 0) THEN [ok |-> FALSE, ret |-> -1]
    ELSE IF w.logical_length = 0 /\ ~(startIndex = 0) THEN [ok |-> FALSE, ret |-> -1]
    ELSE IF w.logical_length # 0 /\ ~(startIndex < w.logical_length)
         THEN [ok |-> FALSE, ret |-> -1]
    ELSE LET num == w.logical_length - startIndex
         IN [ok |-> TRUE,
             ret |-> IF isSorted THEN bsearch(key, w.elems, startIndex, num)
                     ELSE my_lfind(key, w.elems, startIndex, num)]

\* recorded capacity of a container of any of the three implementations
Capacity(w) == IF w.impl = "Vector" THEN w.alloc_length ELSE w.internal_length


\* ====================================================== legacy cvec (cvec_*)
\* The earlier cvector.c: fields elemsz, capacity, fn, base, count.
legacy_cvec_create(capacity_hint_arg, fn) ==
    LET cap == IF capacity_hint_arg # 0 THEN capacity_hint_arg
               ELSE CVEC_CAPACITY_HINT
    IN [impl |-> "legacy_cvec", status |-> "live",
        capacity |-> cap, fn |-> fn,
        base |-> NewBuffer(cap), n_slots |-> cap, count |-> 0,
        cleaned |-> <<>>, freed |-> 0, cv_freed |-> 0, oob |-> FALSE]

legacy_cvec_count(w) == w.count

legacy_cvec_first(w) == IF w.count = 0 THEN NullSlot ELSE 0

legacy_cvec_next(w, prev) ==
    LET next == prev + 1
    IN IF next >= w.count THEN NullSlot ELSE next

\* the slots cvec_first / cvec_next visit from `p` on, in order
RECURSIVE legacy_cvec_visit(_, _)
legacy_cvec_visit(w, p) ==
    IF p = NullSlot THEN <<>>
    ELSE <<w.base[p + 1]>> \o legacy_cvec_visit(w, legacy_cvec_next(w, p))

legacy_cvec_dispose(w) ==
    LET calls == IF w.fn THEN legacy_cvec_visit(w, legacy_cvec_first(w)) ELSE <<>>
    IN [w EXCEPT !.cleaned = w.cleaned \o calls,
                 !.freed = w.freed + 1,
                 !.cv_freed = w.cv_freed + 1,
                 !.status = "disposed"]

legacy_cvec_nth(w, index) ==
    IF index >= 0 /\ index < w.count
    THEN [ok |-> TRUE, ret |-> index]
    ELSE [ok |-> FALSE, ret |-> -1]

\* cv->capacity *= 2; cv->base = realloc(...)
legacy_cvec_double(w) ==
    [w EXCEPT !.capacity = w.capacity * 2,
              !.base = realloc(w.base, w.capacity * 2),
              !.n_slots = w.capacity * 2]

legacy_cvec_insert(w, addr, index) ==
    IF ~(index >= 0) \/ ~(index <= w.count) THEN Aborted(w)
    ELSE IF index = w.count
    THEN LET free_slots == w.capacity - w.count
             g == IF free_slots = 0 THEN legacy_cvec_double(w) ELSE w
         IN [g EXCEPT !.base = memcpy(g.base, index, addr),
                      !.oob = g.oob \/ WritesOutside(g, index, 1),
                      !.count = g.count + 1]
    ELSE LET free_slots == w.capacity - w.count
             move_slots == w.count - index
             g == IF move_slots > free_slots THEN legacy_cvec_double(w) ELSE w
         IN [g EXCEPT
               !.base = memcpy(memmove(g.base, index + 1, index, move_slots),
                               index, addr),
               !.oob = g.oob \/ WritesOutside(g, index + 1, move_slots)
                             \/ WritesOutside(g, index, 1),
               !.count = g.count + 1]

legacy_cvec_append(w, addr) == legacy_cvec_insert(w, addr, w.count)

legacy_cvec_replace(w, addr, index) ==
    IF ~(index >= 0) \/ ~(index < w.count) THEN Aborted(w)
    ELSE [w EXCEPT
            !.cleaned = IF w.fn THEN Append(w.cleaned, w.base[index + 1])
                        ELSE w.cleaned,
            !.base = memcpy(w.base, index, addr),
            !.oob = w.oob \/ WritesOutside(w, index, 1)]

\* the block move takes count - index slots from slot index + 1: its last
\* slot read is slot `count`, which is outside the block when the vector is
\* full
legacy_cvec_remove(w, index) ==
    IF ~(index >= 0) \/ ~(index < w.count) THEN Aborted(w)
    ELSE LET move_slots == w.count - index
         IN [w EXCEPT
               !.cleaned = IF w.fn THEN Append(w.cleaned, w.base[index + 1])
                           ELSE w.cleaned,
               !.base = IF move_slots > 0
                        THEN memmove(w.base, index, index + 1, move_slots)
                        ELSE w.base,
               !.oob = w.oob \/ (move_slots > 0 /\ index + 1 + move_slots > w.n_slots),
               !.count = w.count - 1]

legacy_cvec_sort(w, p) == [w EXCEPT !.base = Permute(w.base, p)]

\* ==================================================== current cmap (cmap.c)
\* A key is a string, written as the sequence of its character codes.
\* An entry is a heap node [next, key, value]; a pointer to an entry, and the
\* key pointer first/next hand out, is the node's number (NULL is 0).
\* cm.buckets lists the bucket slots that hold a non-NULL pointer; n_alloc
\* is the number of slots calloc returned.

\* unsigned long arithmetic: a 64-bit value is its 8 bytes, lowest first
Byte == 256
ULongZero == [i \in 1..8 |-> 0]
\* MULTIPLIER = 2630849305 = 0x9CCF9319
MULTIPLIER == <<25, 147, 207, 156, 0, 0, 0, 0>>

RECURSIVE Column(_, _, _, _)
\* sum of a[i] * b[k + 1 - i] for i in lo..k
Column(a, b, k, lo) ==
    IF lo > k THEN 0 ELSE a[lo] * b[k + 1 - lo] + Column(a, b, k, lo + 1)

RECURSIVE Carry(_, _, _)
\* bytes of the column sums cols[k..8] with incoming carry c (mod 2^64)
Carry(cols, k, c) ==
    IF k > 8 THEN <<>>
    ELSE <<(cols[k] + c) % Byte>> \o Carry(cols, k + 1, (cols[k] + c) \div Byte)

\* a * b + c mod 2^64, for a small addend c
ULongMulAdd(a, b, c) ==
    Carry([k \in 1..8 |-> Column(a, b, k, 1) + (IF k = 1 THEN c ELSE 0)], 1, 0)

RECURSIVE ULongMod(_, _, _, _)
\* a mod n, from the highest byte down
ULongMod(a, n, k, r) ==
    IF k < 1 THEN r ELSE ULongMod(a, n, k - 1, (r * Byte + a[k]) % n)

RECURSIVE hashcode(_, _)
\* the hashcode after the first i characters of s
hashcode(s, i) ==
    IF i = 0 THEN ULongZero ELSE ULongMulAdd(hashcode(s, i - 1), MULTIPLIER, s[i])

\* the keys the client uses: "a", "b", "d" and "ab"
Keys == {<<97>>, <<98>>, <<100>>, <<97, 98>>}

\* the hash of the client's keys for the bucket counts a run can meet (the
\* hints, the two defaults and the counts a rehash can give), computed once
BucketCounts ==
    (1..(2 * MaxBucketHint + 1)) \cup (1..(2 * MaxVals + 1))
        \cup {default_capacity, CMAP_CAPACITY_HINT}
HashOfKeys ==
    [s \in Keys |-> [n \in BucketCounts |-> ULongMod(hashcode(s, Len(s)), n, 8, 0)]]

hash(s, n_buckets) ==
    IF s \in Keys /\ n_buckets \in BucketCounts THEN HashOfKeys[s][n_buckets]
    ELSE ULongMod(hashcode(s, Len(s)), n_buckets, 8, 0)

get_key_from_entry(m, entry) == m.nodes[entry].key
get_value_from_entry(m, entry) == m.nodes[entry].value
set_next_in_entry(m, entry, next_entry) ==
    [m EXCEPT !.nodes[entry].next = next_entry]
set_value_in_entry(m, entry, value) ==
    [m EXCEPT !.nodes[entry].value = value]

\* the bucket array (listing the slots that hold a non-NULL pointer) and the
\* bucket count of either cmap: buckets / n_buckets in the current one,
\* base / nbucket in the legacy one
Slots(m) == IF m.impl = "legacy_cmap" THEN m.base ELSE m.buckets
NBuckets(m) == IF m.impl = "legacy_cmap" THEN m.nbucket ELSE m.n_buckets

\* the pointer stored in bucket slot i
Bucket(m, i) == IF i \in DOMAIN Slots(m) THEN Slots(m)[i] ELSE NULL
SetBucket(m, i, entry) ==
    [j \in (IF entry = NULL THEN DOMAIN Slots(m) \ {i} ELSE DOMAIN Slots(m) \cup {i})
        |-> IF j = i THEN entry ELSE Slots(m)[j]]

\* malloc of a node: the new node gets the next unused number
create_node(m, key, value) ==
    [m EXCEPT !.nodes = [n \in DOMAIN m.nodes \cup {m.n_nodes + 1} |->
                            IF n = m.n_nodes + 1
                            THEN [next |-> NULL, key |-> key, value |-> value]
                            ELSE m.nodes[n]],
              !.n_nodes = m.n_nodes + 1]

cmap_create(capacity_hint_arg, fn, calloc_null) ==
    [impl |-> "cmap",
     status |-> IF capacity_hint_arg = 0 /\ calloc_null THEN "aborted" ELSE "live",
     n_buckets |-> IF capacity_hint_arg = 0 THEN default_capacity ELSE capacity_hint_arg,
     n_alloc |-> capacity_hint_arg,
     count |-> 0,
     clean |-> fn,
     buckets |-> <<>>,
     nodes |-> <<>>, n_nodes |-> 0,
     cleaned |-> <<>>, freed_entries |-> <<>>,
     buckets_freed |-> 0, cm_freed |-> 0,
     oob |-> FALSE]

cmap_count(m) == m.count

RECURSIVE find_entry(_, _, _)
\* the walk of a chain from `node`: the entry whose key is `key`, or NULL
find_entry(m, node, key) ==
    IF node = NULL THEN NULL
    ELSE IF get_key_from_entry(m, node) = key THEN node
    ELSE find_entry(m, m.nodes[node].next, key)

RECURSIVE Chain(_, _)
\* the entries of a chain from `node`, head first
Chain(m, node) ==
    IF node = NULL THEN <<>> ELSE <<node>> \o Chain(m, m.nodes[node].next)

\* mutant: a new entry is chained behind the last entry of its bucket
cmap_put_at_tail(m, key, addr) ==
    LET bucket_num == hash(key, m.n_buckets)
        found == find_entry(m, Bucket(m, bucket_num), key)
        o == [m EXCEPT !.oob = m.oob \/ bucket_num >= m.n_alloc]
    IN IF found # NULL
       THEN set_value_in_entry(
                [o EXCEPT !.cleaned = IF m.clean
                                      THEN Append(m.cleaned, get_value_from_entry(m, found))
                                      ELSE m.cleaned],
                found, addr)
       ELSE LET c == create_node(o, key, addr)
                node == c.n_nodes
                front_node == Bucket(c, bucket_num)
                tail == Chain(c, front_node)
            IN IF front_node # NULL
               THEN [set_next_in_entry(c, tail[Len(tail)], node)
                        EXCEPT !.count = c.count + 1]
               ELSE [c EXCEPT !.buckets = SetBucket(c, bucket_num, node),
                              !.count = c.count + 1]

cmap_put(m, key, addr) ==
    LET bucket_num == hash(key, m.n_buckets)
        found == find_entry(m, Bucket(m, bucket_num), key)
        o == [m EXCEPT !.oob = m.oob \/ bucket_num >= m.n_alloc]
    IN IF found # NULL
       THEN set_value_in_entry(
                [o EXCEPT !.cleaned = IF m.clean
                                      THEN Append(m.cleaned, get_value_from_entry(m, found))
                                      ELSE m.cleaned],
                found, addr)
       ELSE LET c == create_node(o, key, addr)
                node == c.n_nodes
                front_node == Bucket(c, bucket_num)
                l == IF front_node # NULL THEN set_next_in_entry(c, node, front_node)
                     ELSE c
            IN [l EXCEPT !.buckets = SetBucket(l, bucket_num, node),
                         !.count = l.count + 1]

\* the result: the entry whose value is returned (NULL if there is none),
\* and whether a bucket slot outside the array was read
cmap_get(m, key) ==
    LET bucket_num == hash(key, m.n_buckets)
    IN [ret |-> find_entry(m, Bucket(m, bucket_num), key),
        oob |-> bucket_num >= m.n_alloc]

\* first non-NULL bucket slot among lo..n_buckets-1, or n_buckets
FirstUsedFrom(m, lo) ==
    LET used == {i \in DOMAIN Slots(m) : i >= lo}
    IN IF used = {} THEN NBuckets(m)
       ELSE CHOOSE i \in used : \A j \in used : i <= j

\* a loop that reads the bucket slots lo..hi reads outside the array
ReadsOutside(m, lo, hi) == lo <= hi /\ hi >= m.n_alloc

cmap_first(m) ==
    LET i == FirstUsedFrom(m, 0)
    IN IF i < m.n_buckets
       THEN [ret |-> Bucket(m, i), oob |-> ReadsOutside(m, 0, i)]
       ELSE [ret |-> NULL, oob |-> ReadsOutside(m, 0, m.n_buckets - 1)]

\* mutant: the traversal ends with the chain of the previous key
cmap_next_same_chain_only(m, prev_key) ==
    [ret |-> m.nodes[prev_key].next, oob |-> FALSE]

cmap_next(m, prev_key) ==
    LET next_entry == m.nodes[prev_key].next
        prev_bucket == hash(get_key_from_entry(m, prev_key), m.n_buckets)
        i == FirstUsedFrom(m, prev_bucket + 1)
    IN IF next_entry # NULL THEN [ret |-> next_entry, oob |-> FALSE]
       ELSE IF i < m.n_buckets
       THEN [ret |-> Bucket(m, i), oob |-> ReadsOutside(m, prev_bucket + 1, i)]
       ELSE [ret |-> NULL, oob |-> ReadsOutside(m, prev_bucket + 1, m.n_buckets - 1)]

RECURSIVE AllEntries(_, _)
\* the entries of the buckets lo..n_buckets-1, in the order the bucket walk
\* of cmap_dispose meets them
AllEntries(m, lo) ==
    LET i == FirstUsedFrom(m, lo)
    IN IF i >= NBuckets(m) THEN <<>>
       ELSE Chain(m, Bucket(m, i)) \o AllEntries(m, i + 1)

cmap_dispose(m) ==
    LET entries == AllEntries(m, 0)
    IN [m EXCEPT
          !.cleaned = m.cleaned \o
                      (IF m.clean
                       THEN [k \in 1..Len(entries) |-> get_value_from_entry(m, entries[k])]
                       ELSE <<>>),
          !.freed_entries = m.freed_entries \o entries,
          !.buckets = <<>>,
          !.buckets_freed = m.buckets_freed + 1,
          !.cm_freed = m.cm_freed + 1,
          !.oob = m.oob \/ ReadsOutside(m, 0, m.n_buckets - 1),
          !.status = "disposed"]

\* ===================================================== legacy cmap (cmap.c)
\* The earlier cmap.c: fields base, valuesz, nbucket, fn, count.  A cell is a
\* heap node [value, next, key]; a freed cell keeps its number and its last
\* content in `nodes` (the memory is still there, no longer owned) and is
\* listed in freed_entries.  `uaf` records that a freed cell was read,
\* `rehashed` the number of times rehash re-chained the table.
cellNextGet(m, cellBase) == m.nodes[cellBase].next
cellNextSet(m, cellBase, pnext) == [m EXCEPT !.nodes[cellBase].next = pnext]
cellValp(m, cellBase) == m.nodes[cellBase].value
cellKeyp(m, cellBase) == m.nodes[cellBase].key

\* mutant: the cell is freed without the cleanup call
cellFree_no_cleanup(m, p) ==
    [m EXCEPT !.freed_entries = Append(m.freed_entries, p)]

cellFree(m, p) ==
    [m EXCEPT !.cleaned = IF m.fn THEN Append(m.cleaned, cellValp(m, p))
                          ELSE m.cleaned,
              !.freed_entries = Append(m.freed_entries, p)]

legacy_cmap_create(capacity_hint_arg, fn) ==
    LET nb == IF capacity_hint_arg # 0 THEN capacity_hint_arg
              ELSE CMAP_CAPACITY_HINT
    IN [impl |-> "legacy_cmap", status |-> "live",
        nbucket |-> nb, n_alloc |-> nb,
        fn |-> fn, count |-> 0,
        base |-> <<>>,
        nodes |-> <<>>, n_nodes |-> 0,
        cleaned |-> <<>>, freed_entries |-> <<>>,
        base_freed |-> 0, cm_freed |-> 0,
        rehashed |-> 0, uaf |-> FALSE, oob |-> FALSE]

legacy_cmap_count(m) == m.count

\* malloc of a cell: the new cell gets the next unused number
cellMake(m, key, addr) ==
    [m EXCEPT !.nodes = [n \in DOMAIN m.nodes \cup {m.n_nodes + 1} |->
                            IF n = m.n_nodes + 1
                            THEN [value |-> addr, next |-> NULL, key |-> key]
                            ELSE m.nodes[n]],
              !.n_nodes = m.n_nodes + 1]

RECURSIVE rehash_move_no_prepend(_, _, _)
\* mutant: a moved cell is not chained in front of the cells already in its
\* new bucket
rehash_move_no_prepend(m, cells, k) ==
    IF k > Len(cells) THEN m
    ELSE LET p == cells[k]
             newSlot == hash(cellKeyp(m, p), m.nbucket)
             l == cellNextSet(m, p, NULL)
         IN rehash_move_no_prepend([l EXCEPT !.base = SetBucket(l, newSlot, p)],
                                   cells, k + 1)

RECURSIVE rehash_move(_, _, _)
\* the loop of rehash over the cells `cells` (old buckets ascending, each
\* chain from its head): every cell is prepended to its new bucket; `m`
\* already has the new bucket count and, in base, the new array
rehash_move(m, cells, k) ==
    IF k > Len(cells) THEN m
    ELSE LET p == cells[k]
             newSlot == hash(cellKeyp(m, p), m.nbucket)
             l == cellNextSet(m, p, Bucket(m, newSlot))
         IN rehash_move([l EXCEPT !.base = SetBucket(l, newSlot, p)], cells, k + 1)


\* mutant: the table is re-chained only once the load has passed REHASH_LOAD
rehash_late(m) ==
    IF (m.count \div m.nbucket) <= REHASH_LOAD THEN m
    ELSE LET nbucket2 == m.nbucket * 2 + 1
         IN rehash_move([m EXCEPT !.nbucket = nbucket2, !.n_alloc = nbucket2,
                                  !.base = <<>>, !.rehashed = m.rehashed + 1,
                                  !.base_freed = m.base_freed + 1],
                        AllEntries(m, 0), 1)

\* free(cm->base) of the old bucket array is counted in base_freed
rehash(m) ==
    IF (m.count \div m.nbucket) < REHASH_LOAD THEN m
    ELSE LET nbucket2 == m.nbucket * 2 + 1
         IN rehash_move([m EXCEPT !.nbucket = nbucket2, !.n_alloc = nbucket2,
                                  !.base = <<>>, !.rehashed = m.rehashed + 1,
                                  !.base_freed = m.base_freed + 1],
                        AllEntries(m, 0), 1)

RECURSIVE find_before(_, _, _)
\* the loop of cmap_put / cmap_remove from cell p: the cell whose next cell
\* has key `key`, or NULL
find_before(m, p, key) ==
    IF cellNextGet(m, p) = NULL THEN NULL
    ELSE IF cellKeyp(m, cellNextGet(m, p)) = key THEN p
    ELSE find_before(m, cellNextGet(m, p), key)

\* mutant: a put on the head cell's key chains the new cell in front of it
legacy_cmap_put_keeps_old(m, key, addr) ==
    LET c == cellMake(m, key, addr)
        newCell == c.n_nodes
        slot == hash(key, c.nbucket)
        p == Bucket(c, slot)
    IN IF p = NULL
       THEN rehash([c EXCEPT !.base = SetBucket(c, slot, newCell),
                             !.count = c.count + 1])
       ELSE LET l == cellNextSet(c, newCell, p)
            IN rehash([l EXCEPT !.base = SetBucket(l, slot, newCell),
                                !.count = l.count + 1])

legacy_cmap_put(m, key, addr) ==
    LET c == cellMake(m, key, addr)
        newCell == c.n_nodes
        slot == hash(key, c.nbucket)
        p == Bucket(c, slot)
    IN IF p = NULL
       THEN rehash([c EXCEPT !.base = SetBucket(c, slot, newCell),
                             !.count = c.count + 1])
       ELSE IF cellKeyp(c, p) = key
       THEN LET pnext == cellNextGet(c, p)
                f == cellFree(cellNextSet(c, newCell, pnext), p)
            IN [f EXCEPT !.base = SetBucket(f, slot, newCell)]
       ELSE LET q == find_before(c, p, key)
            IN IF q # NULL
               THEN LET pnext == cellNextGet(c, q)
                        pnextnext == cellNextGet(c, pnext)
                    IN cellNextSet(cellFree(cellNextSet(c, newCell, pnextnext), pnext),
                                   q, newCell)
               ELSE LET l == cellNextSet(c, newCell, p)
                    IN rehash([l EXCEPT !.base = SetBucket(l, slot, newCell),
                                        !.count = l.count + 1])

\* mutant: only the first cell of the bucket is compared
legacy_cmap_get_head_only(m, key) ==
    LET p == Bucket(m, hash(key, m.nbucket))
    IN IF p # NULL /\ cellKeyp(m, p) = key THEN p ELSE NULL

legacy_cmap_get(m, key) == find_entry(m, Bucket(m, hash(key, m.nbucket)), key)

\* mutant: count is decremented also when no cell has the key
legacy_cmap_remove_miscounts(m, key) ==
    LET slot == hash(key, m.nbucket)
        p == Bucket(m, slot)
    IN IF p = NULL THEN m
       ELSE IF cellKeyp(m, p) = key
       THEN LET pnext == cellNextGet(m, p)
                f == cellFree([m EXCEPT !.base = SetBucket(m, slot, pnext)], p)
            IN [f EXCEPT !.count = f.count - 1]
       ELSE LET q == find_before(m, p, key)
            IN IF q # NULL
               THEN LET pnext == cellNextGet(m, q)
                        pnextnext == cellNextGet(m, pnext)
                        f == cellFree(cellNextSet(m, q, pnextnext), pnext)
                    IN [f EXCEPT !.count = f.count - 1]
               ELSE [m EXCEPT !.count = m.count - 1]

legacy_cmap_remove(m, key) ==
    LET slot == hash(key, m.nbucket)
        p == Bucket(m, slot)
    IN IF p = NULL THEN m
       ELSE IF cellKeyp(m, p) = key
       THEN LET pnext == cellNextGet(m, p)
                f == cellFree([m EXCEPT !.base = SetBucket(m, slot, pnext)], p)
            IN [f EXCEPT !.count = f.count - 1]
       ELSE LET q == find_before(m, p, key)
            IN IF q # NULL
               THEN LET pnext == cellNextGet(m, q)
                        pnextnext == cellNextGet(m, pnext)
                        f == cellFree(cellNextSet(m, q, pnextnext), pnext)
                    IN [f EXCEPT !.count = f.count - 1]
               ELSE m

\* the key pointers first / next hand out are the cells' numbers
legacy_cmap_first(m) ==
    LET i == FirstUsedFrom(m, 0)
    IN IF i < m.nbucket THEN Bucket(m, i) ELSE NULL

\* the result, and whether the cell of prevkey was read after its free
legacy_cmap_next(m, prevkey) ==
    LET pnext == cellNextGet(m, prevkey)
        slot == hash(cellKeyp(m, prevkey), m.nbucket)
        i == FirstUsedFrom(m, slot + 1)
    IN [ret |-> IF pnext # NULL THEN pnext
                ELSE IF i < m.nbucket THEN Bucket(m, i) ELSE NULL,
        uaf |-> prevkey \in Range(m.freed_entries)]

RECURSIVE legacy_cmap_dispose_loop(_, _, _)
\* the loop of cmap_dispose from key pointer keyp: remove the key, then ask
\* cmap_next for the key after it.  A read of a freed cell is undefined: in
\* `intact` runs the freed memory still holds the cell and the loop goes
\* on, otherwise the process stops at the first such read.
legacy_cmap_dispose_loop(m, keyp, intact) ==
    IF keyp = NULL THEN m
    ELSE LET r == legacy_cmap_remove(m, cellKeyp(m, keyp))
             n == legacy_cmap_next(r, keyp)
             u == [r EXCEPT !.uaf = r.uaf \/ n.uaf]
         IN IF n.uaf /\ ~intact THEN Aborted(u)
            ELSE legacy_cmap_dispose_loop(u, n.ret, intact)

legacy_cmap_dispose(m, intact) ==
    LET d == legacy_cmap_dispose_loop(m, legacy_cmap_first(m), intact)
    IN IF d.status = "aborted" THEN d
       ELSE [d EXCEPT !.base_freed = d.base_freed + 1,
                      !.cm_freed = d.cm_freed + 1,
                      !.status = "disposed"]

\* ============================ legacy cmap: the cell layout and the static cm
\* The same cmap.c with a cell as the block malloc returned, a sequence of
\* 8-byte words: valuesz words of value, the next pointer, the key (a key of
\* up to 7 characters and its terminator fill one word).  A value size is a
\* number of words.  A word is [t, x]: "v" a word of a value (the client's
\* values are not zero), "p" a pointer (the number of a cell, NULL 0), "k" a
\* key string, "j" unwritten.  cellNextGet, cellNextSet and cellKeyp have no
\* map parameter: they take valuesz from the static pointer cm, which
\* cmap_create sets to the map created last.
\* The world w holds that pointer (cm, the number of a map, 0 before any),
\* the map structs, the cells, the freed cells and the cleanup calls; `ub`
\* says that a call accessed a word outside a live block or read bytes it
\* cannot interpret (undefined behaviour, or a loop that does not end).
\* a pointer to no cell, and a value that is not one the client has put
Wild == NULL - 1
Garbled == NULL - 1

ValWord(x) == [t |-> "v", x |-> x]
PtrWord(p) == [t |-> "p", x |-> p]
KeyWord(s) == [t |-> "k", x |-> s]
JunkWord == [t |-> "j", x |-> Junk]

NewWorld ==
    [cm |-> 0, maps |-> <<>>, cells |-> <<>>, freed |-> {}, cleaned |-> <<>>,
     ub |-> FALSE, status |-> "live"]

Undefined(w) == [w EXCEPT !.ub = TRUE]

\* cm->valuesz through the static pointer
StaticValuesz(w) == w.maps[w.cm].valuesz

\* word i (from 1) of the block at cellBase exists
InBlock(w, cellBase, i) ==
    /\ cellBase \in 1..Len(w.cells)
    /\ cellBase \notin w.freed
    /\ i \in 1..Len(w.cells[cellBase])

\* *(void **)(cellBase + cm->valuesz): a value word or a key word read as a
\* pointer is a pointer to no cell
layout_cellNextGet(w, cellBase) ==
    IF ~InBlock(w, cellBase, StaticValuesz(w) + 1)
       \/ w.cells[cellBase][StaticValuesz(w) + 1].t = "j"
    THEN [val |-> Wild, ub |-> TRUE]
    ELSE [val |-> IF w.cells[cellBase][StaticValuesz(w) + 1].t = "p"
                  THEN w.cells[cellBase][StaticValuesz(w) + 1].x ELSE Wild,
          ub |-> FALSE]

layout_cellNextSet(w, cellBase, pnext) ==
    IF ~InBlock(w, cellBase, StaticValuesz(w) + 1) THEN Undefined(w)
    ELSE [w EXCEPT !.cells[cellBase][StaticValuesz(w) + 1] = PtrWord(pnext)]

\* the string strcmp and hash read at cellBase + sizeof(void *) +
\* cm->valuesz: a NULL pointer read as a string is the empty string
layout_cellKeyp(w, cellBase) ==
    IF ~InBlock(w, cellBase, StaticValuesz(w) + 2)
    THEN [val |-> <<>>, ub |-> TRUE]
    ELSE IF w.cells[cellBase][StaticValuesz(w) + 2].t = "k"
    THEN [val |-> w.cells[cellBase][StaticValuesz(w) + 2].x, ub |-> FALSE]
    ELSE IF w.cells[cellBase][StaticValuesz(w) + 2] = PtrWord(NULL)
    THEN [val |-> <<>>, ub |-> FALSE]
    ELSE [val |-> <<>>, ub |-> TRUE]

\* the value a client reads through the pointer cellValp returns, with the
\* map's own valuesz: x when all its words are words of the value x
layout_cellValp(w, mi, cellBase) ==
    IF \E x \in 1..MaxVals : \A i \in 1..w.maps[mi].valuesz :
           InBlock(w, cellBase, i) /\ w.cells[cellBase][i] = ValWord(x)
    THEN w.cells[cellBase][1].x
    ELSE Garbled

layout_cellFree(w, mi, p) ==
    IF ~InBlock(w, p, 1) THEN Undefined(w)
    ELSE [w EXCEPT !.cleaned = IF w.maps[mi].fn
                               THEN Append(w.cleaned, layout_cellValp(w, mi, p))
                               ELSE w.cleaned,
                   !.freed = w.freed \cup {p}]

layout_cmap_create(w, valuesz, capacity_hint_arg, fn) ==
    IF ~(valuesz > 0) \/ ~(capacity_hint_arg >= 0) THEN Aborted(w)
    ELSE [w EXCEPT !.maps = Append(w.maps,
                                [impl |-> "legacy_cmap", valuesz |-> valuesz,
                                 nbucket |-> IF capacity_hint_arg # 0
                                             THEN capacity_hint_arg
                                             ELSE CMAP_CAPACITY_HINT,
                                 fn |-> fn, count |-> 0, base |-> <<>>]),
                   !.cm = Len(w.maps) + 1]

\* malloc of sizeof(void *) + strlen(key) + 1 + the map's valuesz bytes, then
\* strcpy to cellKeyp, memcpy of the value to the base, cellNextSet(NULL),
\* in this order; the new cell is the last one of w.cells
layout_cellMake(w, mi, key, addr) ==
    [w EXCEPT
       !.cells = Append(w.cells,
                   [i \in 1..(w.maps[mi].valuesz + 2) |->
                      IF i = StaticValuesz(w) + 1 THEN PtrWord(NULL)
                      ELSE IF i <= w.maps[mi].valuesz THEN ValWord(addr)
                      ELSE IF i = StaticValuesz(w) + 2 THEN KeyWord(key)
                      ELSE JunkWord]),
       !.ub = w.ub \/ StaticValuesz(w) > w.maps[mi].valuesz]

RECURSIVE layout_find(_, _, _, _)
\* the loop of cmap_get from cell p: the cell with key `key`, or NULL
layout_find(w, p, key, fuel) ==
    IF p = NULL THEN [ret |-> NULL, ub |-> FALSE]
    ELSE IF fuel = 0 \/ layout_cellKeyp(w, p).ub THEN [ret |-> NULL, ub |-> TRUE]
    ELSE IF layout_cellKeyp(w, p).val = key THEN [ret |-> p, ub |-> FALSE]
    ELSE IF layout_cellNextGet(w, p).ub THEN [ret |-> NULL, ub |-> TRUE]
    ELSE layout_find(w, layout_cellNextGet(w, p).val, key, fuel - 1)

RECURSIVE layout_find_before(_, _, _, _)
\* the loop of cmap_put / cmap_remove from cell p: the cell whose next cell
\* has key `key`, or NULL
layout_find_before(w, p, key, fuel) ==
    IF fuel = 0 \/ layout_cellNextGet(w, p).ub THEN [ret |-> NULL, ub |-> TRUE]
    ELSE IF layout_cellNextGet(w, p).val = NULL THEN [ret |-> NULL, ub |-> FALSE]
    ELSE IF layout_cellKeyp(w, layout_cellNextGet(w, p).val).ub
    THEN [ret |-> NULL, ub |-> TRUE]
    ELSE IF layout_cellKeyp(w, layout_cellNextGet(w, p).val).val = key
    THEN [ret |-> p, ub |-> FALSE]
    ELSE layout_find_before(w, layout_cellNextGet(w, p).val, key, fuel - 1)

RECURSIVE layout_rehash_move(_, _, _, _, _, _)
\* the loops of rehash from cell p of bucket i of the map m: every cell is
\* prepended to its bucket of the new array, held in m2
layout_rehash_move(w, m2, m, i, p, fuel) ==
    IF i >= m.nbucket THEN [w |-> w, base2 |-> m2.base]
    ELSE IF p = NULL
    THEN layout_rehash_move(w, m2, m, FirstUsedFrom(m, i + 1),
                            Bucket(m, FirstUsedFrom(m, i + 1)), fuel)
    ELSE IF fuel = 0 \/ layout_cellNextGet(w, p).ub \/ layout_cellKeyp(w, p).ub
    THEN [w |-> Undefined(w), base2 |-> m2.base]
    ELSE layout_rehash_move(
             layout_cellNextSet(w, p,
                 Bucket(m2, hash(layout_cellKeyp(w, p).val, m2.nbucket))),
             [m2 EXCEPT !.base =
                 SetBucket(m2, hash(layout_cellKeyp(w, p).val, m2.nbucket), p)],
             m, i, layout_cellNextGet(w, p).val, fuel - 1)

layout_rehash_to(w, mi, nbucket2, r) ==
    IF r.w.ub THEN Undefined(w)
    ELSE [r.w EXCEPT !.maps[mi].nbucket = nbucket2, !.maps[mi].base = r.base2]

layout_rehash(w, mi) ==
    IF (w.maps[mi].count \div w.maps[mi].nbucket) < REHASH_LOAD THEN w
    ELSE layout_rehash_to(w, mi, w.maps[mi].nbucket * 2 + 1,
             layout_rehash_move(
                 w, [impl |-> "legacy_cmap", base |-> <<>>,
                     nbucket |-> w.maps[mi].nbucket * 2 + 1],
                 w.maps[mi], FirstUsedFrom(w.maps[mi], 0),
                 Bucket(w.maps[mi], FirstUsedFrom(w.maps[mi], 0)),
                 Len(w.cells) + 1))

\* cm->base[slot] = newCell; cm->count++; rehash(cm)
layout_chain_in(w, mi, slot, newCell) ==
    layout_rehash([w EXCEPT !.maps[mi].base = SetBucket(w.maps[mi], slot, newCell),
                            !.maps[mi].count = w.maps[mi].count + 1], mi)

\* the new cell takes the place of the cell after q
layout_replace_after(w, mi, q, newCell, pnext) ==
    IF layout_cellNextGet(w, pnext).ub THEN Undefined(w)
    ELSE layout_cellNextSet(
             layout_cellFree(
                 layout_cellNextSet(w, newCell, layout_cellNextGet(w, pnext).val),
                 mi, pnext),
             q, newCell)

\* cmap_put from the head cell p of the key's bucket, c being the world
\* after cellMake
layout_put_in_chain(c, mi, key, slot, p, newCell) ==
    IF layout_cellKeyp(c, p).ub THEN Undefined(c)
    ELSE IF layout_cellKeyp(c, p).val = key
    THEN IF layout_cellNextGet(c, p).ub THEN Undefined(c)
         ELSE [layout_cellFree(
                   layout_cellNextSet(c, newCell, layout_cellNextGet(c, p).val),
                   mi, p)
                 EXCEPT !.maps[mi].base = SetBucket(c.maps[mi], slot, newCell)]
    ELSE IF layout_find_before(c, p, key, Len(c.cells) + 1).ub THEN Undefined(c)
    ELSE IF layout_find_before(c, p, key, Len(c.cells) + 1).ret # NULL
    THEN layout_replace_after(
             c, mi, layout_find_before(c, p, key, Len(c.cells) + 1).ret, newCell,
             layout_cellNextGet(
                 c, layout_find_before(c, p, key, Len(c.cells) + 1).ret).val)
    ELSE layout_chain_in(layout_cellNextSet(c, newCell, p), mi, slot, newCell)

layout_put_cell(c, mi, key, slot, newCell) ==
    IF c.ub THEN c
    ELSE IF Bucket(c.maps[mi], slot) = NULL
    THEN layout_chain_in(c, mi, slot, newCell)
    ELSE layout_put_in_chain(c, mi, key, slot, Bucket(c.maps[mi], slot), newCell)

layout_cmap_put(w, mi, key, addr) ==
    layout_put_cell(layout_cellMake(w, mi, key, addr), mi, key,
                    hash(key, w.maps[mi].nbucket), Len(w.cells) + 1)

layout_cmap_get(w, mi, key) ==
    layout_find(w, Bucket(w.maps[mi], hash(key, w.maps[mi].nbucket)), key,
                Len(w.cells) + 1)

\* the cell after q leaves the chain
layout_unchain_after(w, mi, q, pnext) ==
    IF layout_cellNextGet(w, pnext).ub THEN Undefined(w)
    ELSE [layout_cellFree(
              layout_cellNextSet(w, q, layout_cellNextGet(w, pnext).val), mi, pnext)
            EXCEPT !.maps[mi].count = w.maps[mi].count - 1]

layout_remove_in_chain(w, mi, key, slot, p) ==
    IF layout_cellKeyp(w, p).ub THEN Undefined(w)
    ELSE IF layout_cellKeyp(w, p).val = key
    THEN IF layout_cellNextGet(w, p).ub THEN Undefined(w)
         ELSE [layout_cellFree(w, mi, p)
                 EXCEPT !.maps[mi].base =
                            SetBucket(w.maps[mi], slot, layout_cellNextGet(w, p).val),
                        !.maps[mi].count = w.maps[mi].count - 1]
    ELSE IF layout_find_before(w, p, key, Len(w.cells) + 1).ub THEN Undefined(w)
    ELSE IF layout_find_before(w, p, key, Len(w.cells) + 1).ret # NULL
    THEN layout_unchain_after(
             w, mi, layout_find_before(w, p, key, Len(w.cells) + 1).ret,
             layout_cellNextGet(
                 w, layout_find_before(w, p, key, Len(w.cells) + 1).ret).val)
    ELSE w

layout_cmap_remove(w, mi, key) ==
    IF Bucket(w.maps[mi], hash(key, w.maps[mi].nbucket)) = NULL THEN w
    ELSE layout_remove_in_chain(w, mi, key, hash(key, w.maps[mi].nbucket),
                                Bucket(w.maps[mi], hash(key, w.maps[mi].nbucket)))

\* ============================================== hashset on the vector (part_000)
\* the client's hash function: elements that compare equal get the same bucket
hash_fun(e, n_buckets) == Key(e) % n_buckets

\* a bucket operation that fails an assert ends the process
WithBucket(h, bucket, b) ==
    [h EXCEPT !.array[bucket + 1] = b,
              !.status = IF b.status = "aborted" THEN "aborted" ELSE @]

hashset_new(num_buckets, free_fun) ==
    [impl |-> "hashset",
     status |-> IF num_buckets > 0 THEN "live" ELSE "aborted",
     n_buckets |-> num_buckets, count |-> 0,
     array |-> [i \in 1..num_buckets |-> vector_new(free_fun, 0)],
     array_freed |-> 0]

hashset_dispose(h) ==
    [h EXCEPT !.array = [i \in 1..h.n_buckets |-> vector_dispose(h.array[i])],
              !.array_freed = h.array_freed + 1,
              !.status = "disposed"]

hashset_count(h) == h.count


\* mutant: the bucket is not sorted again after an append
hashset_enter_no_sort(h, elem_addr, p) ==
    LET bucket == hash_fun(elem_addr, h.n_buckets)
        s == vector_search(h.array[bucket + 1], elem_addr, 0, TRUE)
        vec_position == s.ret
    IN IF ~(bucket >= 0 /\ bucket < h.n_buckets) \/ ~s.ok THEN Aborted(h)
       ELSE IF vec_position = -1
       THEN [WithBucket(h, bucket, vector_append(h.array[bucket + 1], elem_addr))
                EXCEPT !.count = h.count + 1]
       ELSE WithBucket(h, bucket,
                vector_elem_replace(h.array[bucket + 1], elem_addr, vec_position))

\* p is the arrangement qsort gives the bucket after the append
hashset_enter(h, elem_addr, p) ==
    LET bucket == hash_fun(elem_addr, h.n_buckets)
        s == vector_search(h.array[bucket + 1], elem_addr, 0, TRUE)
        vec_position == s.ret
    IN IF ~(bucket >= 0 /\ bucket < h.n_buckets) \/ ~s.ok THEN Aborted(h)
       ELSE IF vec_position = -1
       THEN [WithBucket(h, bucket,
                vector_sort(vector_append(h.array[bucket + 1], elem_addr), p))
                EXCEPT !.count = h.count + 1]
       ELSE WithBucket(h, bucket,
                vector_elem_replace(h.array[bucket + 1], elem_addr, vec_position))

\* the element the returned pointer points to; NULL when there is none
hashset_lookup(h, elem_addr) ==
    LET bucket == hash_fun(elem_addr, h.n_buckets)
        s == vector_search(h.array[bucket + 1], elem_addr, 0, TRUE)
        vec_position == s.ret
    IN IF ~(bucket >= 0 /\ bucket < h.n_buckets) \/ ~s.ok
       THEN [ok |-> FALSE, ret |-> NULL]
       ELSE IF vec_position = -1 THEN [ok |-> TRUE, ret |-> NULL]
       ELSE LET n == vector_nth(h.array[bucket + 1], vec_position)
            IN [ok |-> n.ok,
                ret |-> IF n.ok THEN h.array[bucket + 1].elems[n.ret + 1] ELSE NULL]

\* ===================================== legacy hashset on the legacy vector (part_001)
HashSetNew(numBuckets, freefn) ==
    [impl |-> "HashSet",
     status |-> IF numBuckets > 0 THEN "live" ELSE "aborted",
     n_buckets |-> numBuckets, count |-> 0,
     array |-> [i \in 1..numBuckets |-> VectorNew(freefn, 0)],
     array_freed |-> 0]

HashSetDispose(h) ==
    [h EXCEPT !.array = [i \in 1..h.n_buckets |-> VectorDispose(h.array[i])],
              !.array_freed = h.array_freed + 1,
              !.status = "disposed"]

HashSetCount(h) == h.count

HashSetEnter(h, elemAddr, p) ==
    LET bucket == hash_fun(elemAddr, h.n_buckets)
        s == VectorSearch(h.array[bucket + 1], elemAddr, 0, TRUE)
        position == s.ret
    IN IF elemAddr = NULL \/ ~(bucket >= 0 /\ bucket < h.n_buckets) \/ ~s.ok
       THEN Aborted(h)
       ELSE IF position = -1
       THEN [WithBucket(h, bucket,
                VectorSort(VectorAppend(h.array[bucket + 1], elemAddr), p))
                EXCEPT !.count = h.count + 1]
       ELSE WithBucket(h, bucket,
                VectorReplace(h.array[bucket + 1], elemAddr, position))

HashSetLookup(h, elemAddr) ==
    LET bucket == hash_fun(elemAddr, h.n_buckets)
        s == VectorSearch(h.array[bucket + 1], elemAddr, 0, TRUE)
        position == s.ret
    IN IF elemAddr = NULL \/ ~(bucket >= 0 /\ bucket < h.n_buckets) \/ ~s.ok
       THEN [ok |-> FALSE, ret |-> NULL]
       ELSE IF position = -1 THEN [ok |-> TRUE, ret |-> NULL]
       ELSE LET n == VectorNth(h.array[bucket + 1], position)
            IN [ok |-> n.ok,
                ret |-> IF n.ok THEN h.array[bucket + 1].elems[n.ret + 1] ELSE NULL]

\* ============================================================ reassemble.c
\* A fragment is a string, a sequence of characters; the array a[] holds
\* pointers to strings.  No fragment is empty (read_frag rejects an empty
\* one and merge never makes one), so the empty sequence stands for the NULL
\* pointer of a nullified entry.  Array indices are 0-based as in the code.
NoFrag == <<>>

\* strstr: offset of the first occurrence of needle in haystack, -1 for NULL
strstr(haystack, needle) ==
    LET at == {k \in 0..(Len(haystack) - Len(needle)) :
                  SubSeq(haystack, k + 1, k + Len(needle)) = needle}
    IN IF at = {} THEN -1 ELSE CHOOSE k \in at : \A l \in at : k <= l

\* strchr from offset `from`: offset of the first c in s, -1 for NULL
strchr(str, from, c) ==
    LET at == {k \in from..(Len(str) - 1) : str[k + 1] = c}
    IN IF at = {} THEN -1 ELSE CHOOSE k \in at : \A l \in at : k <= l

RECURSIVE find_max_overlap_from(_, _, _, _)
\* the loop of find_max_overlap: `current` is an offset into s2 and s1_clone
\* the copy of s1 as cut short so far
find_max_overlap_from(s1, s2, current, s1_clone) ==
    LET found == strchr(s2, current, s1[1])
    IN IF found = -1 THEN 0
       ELSE LET n_current == Len(s2) - found
                n_s1_clone == Len(s1_clone)
                clone == IF n_current < n_s1_clone
                         THEN SubSeq(s1_clone, 1, n_current) ELSE s1_clone
            IN IF SubSeq(s2, found + 1, Len(s2)) = clone THEN n_current
               ELSE find_max_overlap_from(s1, s2, found + 1, clone)


\* mutant: only the first occurrence of s1[0] in s2 is tried
find_max_overlap_first_only(s1, s2) ==
    LET found == strchr(s2, 0, s1[1])
    IN IF found = -1 THEN 0
       ELSE IF /\ Len(s2) - found <= Len(s1)
               /\ SubSeq(s2, found + 1, Len(s2)) = SubSeq(s1, 1, Len(s2) - found)
            THEN Len(s2) - found
            ELSE 0

find_max_overlap(s1, s2) == find_max_overlap_from(s1, s2, 0, s1)

\* free(a[ndx]); a[ndx] = NULL, for an index inside the array
nullify_entry(a, ndx) == [a EXCEPT ![ndx + 1] = NoFrag]


\* mutant: one character more than the overlap is left out of s1
merge_skips_one(a, ndx1, ndx2, overlap) ==
    LET s1 == a[ndx1 + 1]
        s2 == a[ndx2 + 1]
    IN [a EXCEPT ![ndx1 + 1] = s2 \o SubSeq(s1, overlap + 2, Len(s1))]

\* merge of two live entries: all of s2, then s1 without its first `overlap`
\* characters, stored at ndx1
merge(a, ndx1, ndx2, overlap) ==
    LET s1 == a[ndx1 + 1]
        s2 == a[ndx2 + 1]
    IN [a EXCEPT ![ndx1 + 1] = s2 \o SubSeq(s1, overlap + 1, Len(s1))]

RECURSIVE count_logical_elems_from(_, _, _)
count_logical_elems_from(a, n_elems, i) ==
    IF i < n_elems /\ a[i + 1] # NoFrag
    THEN count_logical_elems_from(a, n_elems, i + 1) ELSE i

count_logical_elems(a, n_elems) == count_logical_elems_from(a, n_elems, 0)

RECURSIVE squeeze_from(_, _, _)
squeeze_from(a, n_elems, i) ==
    IF i >= n_elems THEN a
    ELSE IF a[i + 1] # NoFrag THEN squeeze_from(a, n_elems, i + 1)
    ELSE LET below == {j \in (i + 1)..(n_elems - 1) : a[j + 1] # NoFrag}
         IN IF below = {} THEN squeeze_from(a, n_elems, i + 1)
            ELSE LET j == CHOOSE k \in below : \A l \in below : k >= l
                 IN squeeze_from([a EXCEPT ![i + 1] = a[j + 1], ![j + 1] = NoFrag],
                                 n_elems, i + 1)

squeeze(a, n_elems) == squeeze_from(a, n_elems, 0)

\* mutant: the pair examined last becomes the merge candidate
better_overlap_last_wins(st, overlap, first, second) ==
    [st EXCEPT !.max_overlap = overlap,
               !.first_in_merge = first,
               !.second_in_merge = second]

\* lines 336-347: the pair (first, second) becomes the merge candidate when
\* its overlap is above the largest one seen
better_overlap(st, overlap, first, second) ==
    IF overlap > st.max_overlap
    THEN [st EXCEPT !.max_overlap = overlap,
                    !.first_in_merge = first,
                    !.second_in_merge = second]
    ELSE st

RECURSIVE pass_pairs(_, _, _, _)
\* the two nested loops of reassemble_pass at the pair (i, j); st holds the
\* array and max_overlap, first_in_merge, second_in_merge
pass_pairs(st, i, j, n_elems) ==
    IF i >= n_elems THEN st
    ELSE IF j >= n_elems THEN pass_pairs(st, i + 1, i + 2, n_elems)
    ELSE IF st.a[j + 1] = NoFrag \/ st.a[i + 1] = NoFrag
    THEN pass_pairs(st, i, j + 1, n_elems)
    ELSE IF Len(st.a[i + 1]) >= Len(st.a[j + 1])
            /\ strstr(st.a[i + 1], st.a[j + 1]) # -1
    THEN pass_pairs([st EXCEPT !.a = nullify_entry(st.a, j)], i, j + 1, n_elems)
    ELSE IF Len(st.a[i + 1]) < Len(st.a[j + 1])
            /\ strstr(st.a[j + 1], st.a[i + 1]) # -1
    THEN pass_pairs([st EXCEPT !.a = nullify_entry(st.a, i)], i + 1, i + 2, n_elems)
    ELSE IF Len(st.a[i + 1]) <= st.max_overlap /\ Len(st.a[j + 1]) <= st.max_overlap
    THEN pass_pairs(st, i, j + 1, n_elems)
    ELSE pass_pairs(
             better_overlap(
                 better_overlap(st, find_max_overlap(st.a[i + 1], st.a[j + 1]), i, j),
                 find_max_overlap(st.a[j + 1], st.a[i + 1]), j, i),
             i, j + 1, n_elems)

\* lines 350-355, st being what the loops left (at_merge is their array).
\* merge returns at once for a negative index, and otherwise calls strlen on both entries: on a NULL
\* entry the process crashes (null_read).  nullify_entry(a, n_elems, -1)
\* passes its assert and frees and overwrites a[-1], the word in front of
\* the array (oob): that is undefined, and `survives` says whether the
\* process gets past it.
pass_merge(st, n_elems, null_read, crashed) ==
    LET merged == IF st.first_in_merge < 0 \/ st.second_in_merge < 0 \/ null_read
                  THEN st.a
                  ELSE nullify_entry(merge(st.a, st.first_in_merge,
                                           st.second_in_merge, st.max_overlap),
                                     st.second_in_merge)
        squeezed == squeeze(merged, n_elems)
    IN [a |-> IF crashed THEN st.a ELSE squeezed,
        ret |-> IF crashed THEN -1 ELSE count_logical_elems(squeezed, n_elems),
        status |-> IF crashed THEN "aborted" ELSE "live",
        max_overlap |-> st.max_overlap,
        first_in_merge |-> st.first_in_merge,
        second_in_merge |-> st.second_in_merge,
        null_read |-> null_read, oob |-> st.second_in_merge < 0,
        at_merge |-> st.a]

pass_null_read(st) ==
    /\ st.first_in_merge >= 0
    /\ st.second_in_merge >= 0
    /\ \/ st.a[st.first_in_merge + 1] = NoFrag
       \/ st.a[st.second_in_merge + 1] = NoFrag

pass_end(st, n_elems, survives) ==
    pass_merge(st, n_elems, pass_null_read(st),
               pass_null_read(st) \/ (st.second_in_merge < 0 /\ ~survives))

\* one pass
reassemble_pass(a, n_elems, survives) ==
    pass_end(pass_pairs([a |-> a, max_overlap |-> -1,
                         first_in_merge |-> -1, second_in_merge |-> -1],
                        0, 1, n_elems),
             n_elems, survives)

\* ============================================================ spellcheck.c
\* the macros min and min3
min(x1, x2) == IF x1 < x2 THEN x1 ELSE x2
min3(x1, x2, x3) == IF x1 < x2 THEN min(x1, x3) ELSE min(x2, x3)


RECURSIVE edit_dist_no_sentinel(_, _, _)
\* mutant: no early return, the budget is ignored
edit_dist_no_sentinel(s1, s2, max_edit_dist_allowed) ==
    IF s1 = <<>> THEN Len(s2)
    ELSE IF s2 = <<>> THEN Len(s1)
    ELSE LET insertion_s1 ==
                 edit_dist_no_sentinel(Tail(s1), s2, max_edit_dist_allowed - 1) + 1
             insertion_s2 ==
                 edit_dist_no_sentinel(s1, Tail(s2), max_edit_dist_allowed - 1) + 1
             diagonal ==
                 edit_dist_no_sentinel(Tail(s1), Tail(s2), max_edit_dist_allowed)
                   + (IF Head(s1) = Head(s2) THEN 0 ELSE 1)
         IN min3(insertion_s1, insertion_s2, diagonal)

RECURSIVE edit_dist_early_stop(_, _, _)
\* mutant: the early return is taken whenever the budget is used up
edit_dist_early_stop(s1, s2, max_edit_dist_allowed) ==
    IF max_edit_dist_allowed <= 0 /\ s1 # s2 THEN MAX_STRING_LENGTH + 1
    ELSE IF s1 = <<>> THEN Len(s2)
    ELSE IF s2 = <<>> THEN Len(s1)
    ELSE IF max_edit_dist_allowed = 1 THEN MAX_STRING_LENGTH + 1
    ELSE LET insertion_s1 ==
                 edit_dist_early_stop(Tail(s1), s2, max_edit_dist_allowed - 1) + 1
             insertion_s2 ==
                 edit_dist_early_stop(s1, Tail(s2), max_edit_dist_allowed - 1) + 1
         IN IF Head(s1) = Head(s2)
            THEN LET match ==
                         edit_dist_early_stop(Tail(s1), Tail(s2), max_edit_dist_allowed)
                 IN min3(insertion_s1, insertion_s2, match)
            ELSE LET sub ==
                         edit_dist_early_stop(Tail(s1), Tail(s2),
                                              max_edit_dist_allowed - 1) + 1
                 IN min3(insertion_s1, insertion_s2, sub)

RECURSIVE edit_dist(_, _, _)
\* a string is the sequence of its characters; s + 1 is Tail(s)
edit_dist(s1, s2, max_edit_dist_allowed) ==
    IF max_edit_dist_allowed = 0 /\ s1 # s2 THEN MAX_STRING_LENGTH + 1
    ELSE IF s1 = <<>> THEN Len(s2)
    ELSE IF s2 = <<>> THEN Len(s1)
    ELSE LET insertion_s1 == edit_dist(Tail(s1), s2, max_edit_dist_allowed - 1) + 1
             insertion_s2 == edit_dist(s1, Tail(s2), max_edit_dist_allowed - 1) + 1
         IN IF Head(s1) = Head(s2)
            THEN LET match == edit_dist(Tail(s1), Tail(s2), max_edit_dist_allowed)
                 IN min3(insertion_s1, insertion_s2, match)
            ELSE LET sub == edit_dist(Tail(s1), Tail(s2),
                                      max_edit_dist_allowed - 1) + 1
                 IN min3(insertion_s1, insertion_s2, sub)

\* strcmp: the difference of the first two characters that differ, the
\* terminating '\0' (0) included
RECURSIVE strcmp(_, _)
strcmp(s1, s2) ==
    LET c1 == IF s1 = <<>> THEN 0 ELSE Head(s1)
        c2 == IF s2 = <<>> THEN 0 ELSE Head(s2)
    IN IF c1 # c2 THEN c1 - c2
       ELSE IF c1 = 0 THEN 0
       ELSE strcmp(Tail(s1), Tail(s2))

\* The heap of strings: block number b is the b-th one strdup made, and
\* frees[b] is the number of times free was called on it.  A char * is the
\* record [blk, str] of the block it points to and the characters there.
NewHeap == [frees |-> <<>>]

strdup(hp, str) ==
    [heap |-> [hp EXCEPT !.frees = Append(hp.frees, 0)],
     ptr |-> [blk |-> Len(hp.frees) + 1, str |-> str]]

free(hp, ptr) == [hp EXCEPT !.frees[ptr.blk] = hp.frees[ptr.blk] + 1]

\* the cleanup calls a vector operation made: the elements added to `cleaned`
NewCleaned(before, after) ==
    SubSeq(after.cleaned, Len(before.cleaned) + 1, Len(after.cleaned))

\* cleanup_leader_board on each Correction of cs, in order
RECURSIVE cleanup_leader_board(_, _)
cleanup_leader_board(hp, cs) ==
    IF cs = <<>> THEN hp
    ELSE cleanup_leader_board(free(hp, Head(cs).s), Tail(cs))

\* cleanup_misspellings on each char * of ps, in order
RECURSIVE cleanup_misspellings(_, _)
cleanup_misspellings(hp, ps) ==
    IF ps = <<>> THEN hp
    ELSE cleanup_misspellings(free(hp, Head(ps)), Tail(ps))

\* tolower on the letters 'A'..'Z'
tolower(c) == IF c \in 65..90 THEN c + 32 ELSE c

s_tolower(s) == [i \in 1..Len(s) |-> tolower(s[i])]

\* The corpus map is the function from its keys to their values.  One round
\* of the loop of build_map, for the word read into buf: cmap_get, then
\* cmap_put of 1 or of the old frequency + 1
build_map_round(m, buf) ==
    LET word == s_tolower(buf)
        freq == IF word \in DOMAIN m THEN m[word] + 1 ELSE 1
    IN [w \in (DOMAIN m) \cup {word} |-> IF w = word THEN freq ELSE m[w]]

\* build_map on a corpus file, given as the sequence of the words read_word
\* finds in it
RECURSIVE build_map(_)
build_map(file) ==
    IF file = <<>> THEN <<>>
    ELSE build_map_round(build_map(SubSeq(file, 1, Len(file) - 1)),
                         file[Len(file)])

is_found(m, word) == word \in DOMAIN m

cmp_correction(c1, c2) ==
    IF c1.dist # c2.dist THEN c1.dist - c2.dist
    ELSE IF c1.freq # c2.freq THEN c2.freq - c1.freq
    ELSE strcmp(c1.s.str, c2.s.str)

cmp_words(p1, p2) == strcmp(p1.str, p2.str)

\* qsort with cmp_correction, and with cmp_words: the ordered arrangements
qsort_corrections(buf, nmemb) ==
    {p \in Arrangements(1..nmemb) :
        \A i \in 1..(nmemb - 1) : cmp_correction(buf[p[i]], buf[p[i + 1]]) <= 0}

qsort_words(buf, nmemb) ==
    {p \in Arrangements(1..nmemb) :
        \A i \in 1..(nmemb - 1) : cmp_words(buf[p[i]], buf[p[i + 1]]) <= 0}

RECURSIVE bsearch_words(_, _, _, _, _)
bsearch_words(key, buf, base, l, u) ==
    IF l >= u THEN -1
    ELSE LET idx == (l + u) \div 2
             c == cmp_words(key, buf[base + idx + 1])
         IN IF c < 0 THEN bsearch_words(key, buf, base, l, idx)
            ELSE IF c > 0 THEN bsearch_words(key, buf, base, idx + 1, u)
            ELSE base + idx

RECURSIVE lfind_words(_, _, _, _)
lfind_words(key, buf, base, nmemb) ==
    IF nmemb <= 0 THEN -1
    ELSE IF cmp_words(key, buf[base + 1]) = 0 THEN base
    ELSE lfind_words(key, buf, base + 1, nmemb - 1)

\* cvec_search of the legacy cvec, with cmp_words
legacy_cvec_search(w, key, start, sorted) ==
    IF ~(start >= 0) \/ ~(start <= w.count) THEN [ok |-> FALSE, ret |-> -1]
    ELSE LET newCount == w.count - start
         IN [ok |-> TRUE,
             ret |-> IF sorted THEN bsearch_words(key, w.base, start, 0, newCount)
                     ELSE lfind_words(key, w.base, start, newCount)]

\* the Correction update_leader_board builds for word
new_correction(corpus, hp, word, d) ==
    [dist |-> d, s |-> strdup(hp, word).ptr, freq |-> corpus[word]]

\* the leader board as update_leader_board hands it to cvec_sort (the board
\* itself when the new correction is rejected)
leader_board_unsorted(corpus, board, hp, word, d) ==
    LET c == new_correction(corpus, hp, word, d)
    IN IF legacy_cvec_count(board) = MAX_RESULTS
       THEN LET p == board.base[legacy_cvec_nth(board,
                                                       MAX_RESULTS - 1).ret + 1]
            IN IF cmp_correction(c, p) < 0
               THEN legacy_cvec_replace(board, c, MAX_RESULTS - 1)
               ELSE board
       ELSE legacy_cvec_append(board, c)


\* mutant: the budget returned for a full board is one below the distance
\* of its last correction
update_leader_board_tight(corpus, board, hp, word, d, order) ==
    LET c == new_correction(corpus, hp, word, d)
        dup == strdup(hp, word).heap
        unsorted == leader_board_unsorted(corpus, board, hp, word, d)
    IN IF legacy_cvec_count(board) = MAX_RESULTS
       THEN LET p == board.base[MAX_RESULTS]
            IN IF cmp_correction(c, p) < 0
               THEN LET sorted == legacy_cvec_sort(unsorted, order)
                    IN [leader_board |-> sorted,
                        heap |-> cleanup_leader_board(
                                     dup, NewCleaned(board, unsorted)),
                        ret |-> sorted.base[MAX_RESULTS].dist - 1]
               ELSE [leader_board |-> board,
                     heap |-> free(dup, c.s),
                     ret |-> p.dist - 1]
       ELSE [leader_board |-> legacy_cvec_sort(unsorted, order),
             heap |-> dup,
             ret |-> MAX_STRING_LENGTH]

\* `order` is the arrangement qsort leaves the board in
update_leader_board(corpus, board, hp, word, d, order) ==
    LET c == new_correction(corpus, hp, word, d)
        dup == strdup(hp, word).heap
        unsorted == leader_board_unsorted(corpus, board, hp, word, d)
    IN IF legacy_cvec_count(board) = MAX_RESULTS
       THEN LET p == board.base[legacy_cvec_nth(board,
                                                       MAX_RESULTS - 1).ret + 1]
            IN IF cmp_correction(c, p) < 0
               THEN LET sorted == legacy_cvec_sort(unsorted, order)
                    IN [leader_board |-> sorted,
                        heap |-> cleanup_leader_board(
                                     dup, NewCleaned(board, unsorted)),
                        ret |-> sorted.base[MAX_RESULTS].dist]
               ELSE [leader_board |-> board,
                     heap |-> free(dup, c.s),
                     ret |-> p.dist]
       ELSE [leader_board |-> legacy_cvec_sort(unsorted, order),
             heap |-> dup,
             ret |-> MAX_STRING_LENGTH]

\* one round of the loop of spellcheck, for corpus_word
spellcheck_round(corpus, board, hp, word, corpus_word, max_edit_dist_allowed, order) ==
    LET d == edit_dist(corpus_word, word, max_edit_dist_allowed)
    IN IF d > MAX_STRING_LENGTH
       THEN [leader_board |-> board, heap |-> hp,
             ret |-> max_edit_dist_allowed]
       ELSE update_leader_board(corpus, board, hp, corpus_word, d,
                                order)

\* the strings the printing loop of spellcheck writes after "word:"
print_leader_board(board) ==
    LET cs == legacy_cvec_visit(board, legacy_cvec_first(board))
    IN [i \in 1..Len(cs) |-> cs[i].s.str]

\* one round of the loop of collect_misspellings, for the word read into buf
collect_misspellings_round(corpus, words, hp, buf, order) ==
    LET dup == strdup(hp, s_tolower(buf))
        word == dup.ptr
        match == legacy_cvec_search(words, word, 0, TRUE).ret
    IN IF match = -1 /\ ~is_found(corpus, word.str)
       THEN [misspellings |->
                 legacy_cvec_sort(legacy_cvec_append(words, word), order),
             heap |-> dup.heap]
       ELSE [misspellings |-> words, heap |-> dup.heap]


\* ================================================================ the machine
\* abstract list operations (0-based index i)
AbsInsert(l, e, i) == SubSeq(l, 1, i) \o <<e>> \o SubSeq(l, i + 1, Len(l))
AbsRemove(l, i) == SubSeq(l, 1, i) \o SubSeq(l, i + 2, Len(l))
AbsReplace(l, e, i) == [l EXCEPT ![i + 1] = e]

\* count and buffer of the implementation at hand
Count(w) == IF w.impl = "vector" THEN vector_length(w)
            ELSE IF w.impl = "cvec" THEN cvec_count(w)
            ELSE IF w.impl = "legacy_cvec" THEN legacy_cvec_count(w)
            ELSE VectorLength(w)
Elems(w) == IF w.impl = "legacy_cvec" THEN w.base ELSE w.elems

\* positions a caller may pass: the valid ones and one on either side
Positions(w) == -1..(Count(w) + 1)

Call(op, elem, pos, ok, ret) ==
    [op |-> op, elem |-> elem, pos |-> pos, ok |-> ok, ret |-> ret]

Live(im) == v.impl = im /\ v.status = "live"

DoInsert(im, F(_, _, _)) ==
    /\ Live(im)
    /\ nextId <= MaxElems
    /\ \E pos \in Positions(v) :
         /\ v' \in Outcomes(F(v, nextId, pos))
         /\ call' = Call("insert", nextId, pos, v'.status = "live", -1)
         /\ IF pos \in 0..Len(abs)
            THEN abs' = AbsInsert(abs, nextId, pos) /\ n_ins' = n_ins + 1
            ELSE UNCHANGED <<abs, n_ins>>
    /\ nextId' = nextId + 1
    /\ UNCHANGED <<n_rem, capacity_hint>>
    /\ walk' = <<>>
    /\ UNCHANGED nonSeqVars

DoAppend(im, F(_, _)) ==
    /\ Live(im)
    /\ nextId <= MaxElems
    /\ v' \in Outcomes(F(v, nextId))
    /\ call' = Call("append", nextId, Len(abs), v'.status = "live", -1)
    /\ abs' = Append(abs, nextId)
    /\ n_ins' = n_ins + 1
    /\ nextId' = nextId + 1
    /\ UNCHANGED <<n_rem, capacity_hint>>
    /\ walk' = <<>>
    /\ UNCHANGED nonSeqVars

DoReplace(im, F(_, _, _)) ==
    /\ Live(im)
    /\ nextId <= MaxElems
    /\ \E pos \in Positions(v) :
         /\ v' \in Outcomes(F(v, nextId, pos))
         /\ call' = Call("replace", nextId, pos, v'.status = "live", -1)
         /\ IF pos \in 0..(Len(abs) - 1)
            THEN abs' = AbsReplace(abs, nextId, pos)
            ELSE UNCHANGED abs
    /\ nextId' = nextId + 1
    /\ UNCHANGED <<n_ins, n_rem, capacity_hint>>
    /\ walk' = <<>>
    /\ UNCHANGED nonSeqVars

DoRemove(im, F(_, _)) ==
    /\ Live(im)
    /\ \E pos \in Positions(v) :
         /\ v' \in Outcomes(F(v, pos))
         /\ call' = Call("remove", 0, pos, v'.status = "live", -1)
         /\ IF pos \in 0..(Len(abs) - 1)
            THEN abs' = AbsRemove(abs, pos) /\ n_rem' = n_rem + 1
            ELSE UNCHANGED <<abs, n_rem>>
    /\ UNCHANGED <<n_ins, nextId, capacity_hint>>
    /\ walk' = <<>>
    /\ UNCHANGED nonSeqVars

DoNth(im, F(_, _)) ==
    /\ Live(im)
    /\ \E pos \in Positions(v) :
         LET r == F(v, pos)
         IN /\ v' = IF r.ok THEN v ELSE Aborted(v)
            /\ call' = Call("nth", 0, pos, r.ok, r.ret)
    /\ UNCHANGED <<abs, n_ins, n_rem, nextId, capacity_hint>>
    /\ UNCHANGED walk
    /\ UNCHANGED nonSeqVars

DoSort(im, F(_, _)) ==
    /\ Live(im)
    /\ \E p \in qsort(Elems(v), Count(v)) :
         /\ v' = F(v, p)
         /\ abs' = [i \in 1..Len(abs) |-> IF i <= Len(p) THEN abs[p[i]] ELSE abs[i]]
    /\ call' = Call("sort", 0, 0, TRUE, -1)
    /\ UNCHANGED <<n_ins, n_rem, nextId, capacity_hint>>
    /\ walk' = <<>>
    /\ UNCHANGED nonSeqVars

\* a search returns an index and leaves the container alone: the call record
\* keeps which search ran and whether its asserts passed
DoSearch(im, F(_, _, _, _)) ==
    /\ Live(im)
    /\ \E key \in 0..(NumKeys - 1), start \in Positions(v), sorted \in BOOLEAN :
         LET r == F(v, key, start, sorted)
         IN /\ v' = IF r.ok THEN v ELSE Aborted(v)
            /\ call' = Call(IF sorted THEN "bsearch" ELSE "lfind", 0, 0, r.ok, -1)
    /\ UNCHANGED <<abs, n_ins, n_rem, nextId, capacity_hint>>
    /\ UNCHANGED walk
    /\ UNCHANGED nonSeqVars

DoDispose(im, F(_)) ==
    /\ Live(im)
    /\ v' = F(v)
    /\ call' = Call("dispose", 0, 0, TRUE, -1)
    /\ UNCHANGED <<abs, n_ins, n_rem, nextId, capacity_hint>>
    /\ walk' = <<>>
    /\ UNCHANGED nonSeqVars

Call_vector_insert == DoInsert("vector", vector_insert)
Call_vector_append == DoAppend("vector", vector_append)
Call_vector_elem_replace == DoReplace("vector", vector_elem_replace)
Call_vector_elem_delete == DoRemove("vector", vector_elem_delete)
Call_vector_nth == DoNth("vector", vector_nth)
Call_vector_sort == DoSort("vector", vector_sort)
Call_vector_search == DoSearch("vector", vector_search)
Call_vector_dispose == DoDispose("vector", vector_dispose)

Call_cvec_insert == DoInsert("cvec", cvec_insert)
Call_cvec_append == DoAppend("cvec", cvec_append)
Call_cvec_elem_replace == DoReplace("cvec", cvec_elem_replace)
Call_cvec_elem_remove == DoRemove("cvec", cvec_elem_remove)
Call_cvec_nth == DoNth("cvec", cvec_nth)
Call_cvec_sort == DoSort("cvec", cvec_sort)
Call_cvec_search == DoSearch("cvec", cvec_search)
Call_cvec_dispose == DoDispose("cvec", cvec_dispose)

Call_VectorInsert == DoInsert("Vector", VectorInsert)
Call_VectorAppend == DoAppend("Vector", VectorAppend)
Call_VectorReplace == DoReplace("Vector", VectorReplace)
Call_VectorDelete == DoRemove("Vector", VectorDelete)
Call_VectorNth == DoNth("Vector", VectorNth)
Call_VectorSort == DoSort("Vector", VectorSort)
Call_VectorSearch == DoSearch("Vector", VectorSearch)
Call_VectorDispose == DoDispose("Vector", VectorDispose)

Call_legacy_cvec_insert == DoInsert("legacy_cvec", legacy_cvec_insert)
Call_legacy_cvec_append == DoAppend("legacy_cvec", legacy_cvec_append)
Call_legacy_cvec_replace == DoReplace("legacy_cvec", legacy_cvec_replace)
Call_legacy_cvec_remove == DoRemove("legacy_cvec", legacy_cvec_remove)
Call_legacy_cvec_dispose == DoDispose("legacy_cvec", legacy_cvec_dispose)

\* traversal: `walk` holds the pointers cvec_first and the cvec_next calls
\* after it have returned; the client passes the last one to cvec_next and
\* stops at NULL
DoFirst(im, F(_)) ==
    /\ Live(im)
    /\ walk' = <<F(v)>>
    /\ call' = Call("first", 0, 0, TRUE, F(v))
    /\ UNCHANGED <<v, abs, n_ins, n_rem, nextId, capacity_hint>>
    /\ UNCHANGED nonSeqVars

DoNext(im, F(_, _)) ==
    /\ Live(im)
    /\ walk # <<>>
    /\ walk[Len(walk)] # NullSlot
    /\ walk' = Append(walk, F(v, walk[Len(walk)]))
    /\ call' = Call("next", 0, 0, TRUE, F(v, walk[Len(walk)]))
    /\ UNCHANGED <<v, abs, n_ins, n_rem, nextId, capacity_hint>>
    /\ UNCHANGED nonSeqVars

Call_cvec_first == DoFirst("cvec", cvec_first)
Call_cvec_next == DoNext("cvec", cvec_next)
Call_legacy_cvec_first == DoFirst("legacy_cvec", legacy_cvec_first)
Call_legacy_cvec_next == DoNext("legacy_cvec", legacy_cvec_next)

\* ------------------------------------------------------ the map machine
MCall(op, key, val, ok, ret) ==
    [op |-> op, key |-> key, val |-> val, ok |-> ok, ret |-> ret]

MapLive(im) == cm.impl = im /\ cm.status = "live"

\* the abstract map: the (key, value) pairs stored, in the order of the puts
\* that inserted the keys
RECURSIVE MapIndex(_, _, _)
MapIndex(a, key, k) ==
    IF k > Len(a) THEN 0 ELSE IF a[k][1] = key THEN k ELSE MapIndex(a, key, k + 1)
MapGet(a, key) == IF MapIndex(a, key, 1) = 0 THEN NULL ELSE a[MapIndex(a, key, 1)][2]
MapPut(a, key, val) ==
    IF MapIndex(a, key, 1) = 0 THEN Append(a, <<key, val>>)
    ELSE [a EXCEPT ![MapIndex(a, key, 1)] = <<key, val>>]
MapRemove(a, key) ==
    IF MapIndex(a, key, 1) = 0 THEN a
    ELSE SubSeq(a, 1, MapIndex(a, key, 1) - 1)
         \o SubSeq(a, MapIndex(a, key, 1) + 1, Len(a))

\* a put or remove ends the client's traversal: the key pointer it holds is
\* dropped
Call_cmap_put ==
    /\ MapLive("cmap")
    /\ nextVal <= MaxVals
    /\ \E key \in Keys :
         /\ cm' \in Outcomes(cmap_put(cm, key, nextVal))
         /\ mcall' = MCall("put", key, nextVal, cm'.status = "live", NULL)
         /\ amap' = MapPut(amap, key, nextVal)
    /\ nextVal' = nextVal + 1
    /\ iter' = NULL
    /\ UNCHANGED nonMapVars

Call_cmap_get ==
    /\ MapLive("cmap")
    /\ \E key \in Keys :
         LET r == cmap_get(cm, key)
         IN /\ cm' \in Outcomes([cm EXCEPT !.oob = cm.oob \/ r.oob])
            /\ mcall' = MCall("get", key, 0, cm'.status = "live", r.ret)
    /\ UNCHANGED <<iter, nextVal, amap>>
    /\ UNCHANGED nonMapVars

Call_cmap_first ==
    /\ MapLive("cmap")
    /\ LET r == cmap_first(cm)
       IN /\ cm' \in Outcomes([cm EXCEPT !.oob = cm.oob \/ r.oob])
          /\ mcall' = MCall("first", <<>>, 0, cm'.status = "live", r.ret)
          /\ iter' = r.ret
    /\ UNCHANGED <<nextVal, amap>>
    /\ UNCHANGED nonMapVars

Call_cmap_next ==
    /\ MapLive("cmap")
    /\ iter # NULL
    /\ LET r == cmap_next(cm, iter)
       IN /\ cm' \in Outcomes([cm EXCEPT !.oob = cm.oob \/ r.oob])
          /\ mcall' = MCall("next", get_key_from_entry(cm, iter), 0,
                            cm'.status = "live", r.ret)
          /\ iter' = r.ret
    /\ UNCHANGED <<nextVal, amap>>
    /\ UNCHANGED nonMapVars

Call_cmap_dispose ==
    /\ MapLive("cmap")
    /\ cm' \in Outcomes(cmap_dispose(cm))
    /\ mcall' = MCall("dispose", <<>>, 0, cm'.status = "disposed", NULL)
    /\ iter' = NULL
    /\ UNCHANGED <<nextVal, amap>>
    /\ UNCHANGED nonMapVars

Call_legacy_cmap_put ==
    /\ MapLive("legacy_cmap")
    /\ nextVal <= MaxVals
    /\ \E key \in Keys :
         /\ cm' = legacy_cmap_put(cm, key, nextVal)
         /\ mcall' = MCall("put", key, nextVal, TRUE, NULL)
         /\ amap' = MapPut(amap, key, nextVal)
    /\ nextVal' = nextVal + 1
    /\ iter' = NULL
    /\ UNCHANGED nonMapVars

Call_legacy_cmap_get ==
    /\ MapLive("legacy_cmap")
    /\ \E key \in Keys :
         mcall' = MCall("get", key, 0, TRUE, legacy_cmap_get(cm, key))
    /\ UNCHANGED <<cm, iter, nextVal, amap>>
    /\ UNCHANGED nonMapVars

Call_legacy_cmap_remove ==
    /\ MapLive("legacy_cmap")
    /\ \E key \in Keys :
         /\ cm' = legacy_cmap_remove(cm, key)
         /\ mcall' = MCall("remove", key, 0, TRUE, NULL)
         /\ amap' = MapRemove(amap, key)
    /\ iter' = NULL
    /\ UNCHANGED nextVal
    /\ UNCHANGED nonMapVars

Call_legacy_cmap_first ==
    /\ MapLive("legacy_cmap")
    /\ mcall' = MCall("first", <<>>, 0, TRUE, legacy_cmap_first(cm))
    /\ iter' = legacy_cmap_first(cm)
    /\ UNCHANGED <<cm, nextVal, amap>>
    /\ UNCHANGED nonMapVars

Call_legacy_cmap_next ==
    /\ MapLive("legacy_cmap")
    /\ iter # NULL
    /\ LET r == legacy_cmap_next(cm, iter)
       IN /\ cm' = [cm EXCEPT !.uaf = cm.uaf \/ r.uaf]
          /\ mcall' = MCall("next", cellKeyp(cm, iter), 0, TRUE, r.ret)
          /\ iter' = r.ret
    /\ UNCHANGED <<nextVal, amap>>
    /\ UNCHANGED nonMapVars

Call_legacy_cmap_dispose ==
    /\ MapLive("legacy_cmap")
    /\ \E intact \in BOOLEAN : cm' = legacy_cmap_dispose(cm, intact)
    /\ mcall' = MCall("dispose", <<>>, 0, cm'.status = "disposed", NULL)
    /\ iter' = NULL
    /\ UNCHANGED <<nextVal, amap>>
    /\ UNCHANGED nonMapVars

\* ------------------------------------ two legacy cmaps and the static cm
LCall(op, mi, key, ret) == [op |-> op, map |-> mi, key |-> key, ret |-> ret]

\* the keys "a" and "d": they share a bucket of a table of 1 or 3 buckets
LayoutKeys == {<<97>>, <<100>>}

\* a call that ran into undefined behaviour crashes the process or leaves
\* it in a state nothing is known about
LayoutOutcomes(w0, w) ==
    IF w.ub
    THEN {[w0 EXCEPT !.ub = TRUE, !.status = s] : s \in {"aborted", "undefined"}}
    ELSE {w}

\* the client creates a second map, with the cleanup function of the first
\* and a value size and a bucket hint of its own
Call_layout_cmap_create ==
    /\ lc.status = "live"
    /\ Len(lc.maps) = 1
    /\ \E valuesz \in 1..MaxValueWords, h \in 0..MaxBucketHint :
         lc' = layout_cmap_create(lc, valuesz, h, lc.maps[1].fn)
    /\ lcall' = LCall("create", Len(lc.maps) + 1, <<>>, NULL)
    /\ lamap' = Append(lamap, <<>>)
    /\ UNCHANGED nonLcVars

\* the values put are 1, 2, ..., every word of a value holding its number
Call_layout_cmap_put ==
    /\ lc.status = "live"
    /\ Len(lc.cells) < MaxVals
    /\ \E mi \in 1..Len(lc.maps), key \in LayoutKeys :
         /\ lc' \in LayoutOutcomes(lc, layout_cmap_put(lc, mi, key, Len(lc.cells) + 1))
         /\ lcall' = LCall("put", mi, key, NULL)
         /\ lamap' = [lamap EXCEPT ![mi] = MapPut(@, key, Len(lc.cells) + 1)]
    /\ UNCHANGED nonLcVars

\* ret is the value the client reads through the pointer returned
Call_layout_cmap_get ==
    /\ lc.status = "live"
    /\ \E mi \in 1..Len(lc.maps), key \in LayoutKeys :
         LET r == layout_cmap_get(lc, mi, key)
         IN /\ lc' \in LayoutOutcomes(lc, IF r.ub THEN Undefined(lc) ELSE lc)
            /\ lcall' = LCall("get", mi, key,
                              IF r.ub \/ r.ret = NULL THEN NULL
                              ELSE layout_cellValp(lc, mi, r.ret))
    /\ UNCHANGED lamap
    /\ UNCHANGED nonLcVars

Call_layout_cmap_remove ==
    /\ lc.status = "live"
    /\ \E mi \in 1..Len(lc.maps), key \in LayoutKeys :
         /\ lc' \in LayoutOutcomes(lc, layout_cmap_remove(lc, mi, key))
         /\ lcall' = LCall("remove", mi, key, NULL)
         /\ lamap' = [lamap EXCEPT ![mi] = MapRemove(@, key)]
    /\ UNCHANGED nonLcVars

\* ------------------------------------------------------ hashset machine
\* the arrangements qsort may give the bucket of an element once the enter
\* has appended it there
EnterSorts(h, e) ==
    LET b == h.array[hash_fun(e, h.n_buckets) + 1]
        found == IF h.impl = "hashset" THEN vector_search(b, e, 0, TRUE).ret
                 ELSE VectorSearch(b, e, 0, TRUE).ret
        appended == IF h.impl = "hashset" THEN vector_append(b, e)
                    ELSE VectorAppend(b, e)
    IN IF found = -1 THEN qsort(appended.elems, appended.logical_length)
       ELSE {<<>>}

HCall(op, elem, ok, ret) == [op |-> op, elem |-> elem, ok |-> ok, ret |-> ret]

HsLive(im) == hs.impl = im /\ hs.status = "live"

\* elements are entered once each, in any order
DoEnter(im, F(_, _, _)) ==
    /\ HsLive(im)
    /\ \E e \in (1..MaxElems) \ Range(entered) :
         /\ \E p \in EnterSorts(hs, e) : hs' = F(hs, e, p)
         /\ hcall' = HCall("enter", e, hs'.status = "live", NULL)
         /\ entered' = Append(entered, e)
    /\ UNCHANGED nonHsVars

\* a lookup is given any element as the probe, entered or not
DoLookup(im, F(_, _)) ==
    /\ HsLive(im)
    /\ \E e \in 1..MaxElems :
         LET r == F(hs, e)
         IN /\ hs' = IF r.ok THEN hs ELSE Aborted(hs)
            /\ hcall' = HCall("lookup", e, r.ok, r.ret)
    /\ UNCHANGED entered
    /\ UNCHANGED nonHsVars

DoHsDispose(im, F(_)) ==
    /\ HsLive(im)
    /\ hs' = F(hs)
    /\ hcall' = HCall("dispose", 0, TRUE, NULL)
    /\ UNCHANGED entered
    /\ UNCHANGED nonHsVars

Call_hashset_enter == DoEnter("hashset", hashset_enter)
Call_hashset_lookup == DoLookup("hashset", hashset_lookup)
Call_hashset_dispose == DoHsDispose("hashset", hashset_dispose)
Call_HashSetEnter == DoEnter("HashSet", HashSetEnter)
Call_HashSetLookup == DoLookup("HashSet", HashSetLookup)
Call_HashSetDispose == DoHsDispose("HashSet", HashSetDispose)

\* --------------------------------------------------- reassemble machine
\* the input alphabet: the letters a and b
Alphabet == {97, 98}

RECURSIVE StringsOfLen(_)
StringsOfLen(n) ==
    IF n = 0 THEN {<<>>}
    ELSE {Append(str, c) : str \in StringsOfLen(n - 1), c \in Alphabet}

\* the arrays of n non-empty fragments of at most `budget` characters in all
RECURSIVE FragArrays(_, _)
FragArrays(n, budget) ==
    IF n = 0 THEN {<<>>}
    ELSE UNION {{<<str>> \o rest : rest \in FragArrays(n - 1, budget - Len(str))} :
                   str \in UNION {StringsOfLen(l) : l \in 1..(budget - (n - 1))}}

NoPass == [n_elems |-> 0, ret |-> 0, max_overlap |-> -1, first_in_merge |-> -1,
           second_in_merge |-> -1, null_read |-> FALSE, oob |-> FALSE,
           at_merge |-> <<>>]

\* one iteration of the loop of reassemble
Call_reassemble_pass ==
    /\ frags.status = "live"
    /\ frags.n_elems > 1
    /\ \E survives \in BOOLEAN :
         LET r == reassemble_pass(frags.a, frags.n_elems, survives)
         IN /\ frags' = [a |-> r.a, n_elems |-> r.ret, status |-> r.status]
            /\ pass' = [n_elems |-> frags.n_elems, ret |-> r.ret,
                        max_overlap |-> r.max_overlap,
                        first_in_merge |-> r.first_in_merge,
                        second_in_merge |-> r.second_in_merge,
                        null_read |-> r.null_read, oob |-> r.oob,
                        at_merge |-> r.at_merge]
    /\ UNCHANGED <<input, ov>>
    /\ UNCHANGED nonRaVars

\* the loop of reassemble has ended: main prints frags[0] and frees it
main_print ==
    /\ frags.status = "live"
    /\ ~(frags.n_elems > 1)
    /\ frags' = [frags EXCEPT !.status = "printed"]
    /\ UNCHANGED <<input, pass, ov>>
    /\ UNCHANGED nonRaVars

\* find_max_overlap and merge on their own: two fragments s1 and s2, the
\* overlap find_max_overlap(s1, s2) returned and the array merge left
NoOverlap == [pc |-> "none", s1 |-> <<>>, s2 |-> <<>>, overlap |-> 0, a |-> <<>>]

Call_find_max_overlap ==
    /\ ov.pc = "start"
    /\ ov' = [ov EXCEPT !.pc = "overlap",
                        !.overlap = find_max_overlap(ov.s1, ov.s2)]
    /\ UNCHANGED <<frags, input, pass>>
    /\ UNCHANGED nonRaVars

Call_merge ==
    /\ ov.pc = "overlap"
    /\ ov' = [ov EXCEPT !.pc = "merged",
                        !.a = merge(<<ov.s1, ov.s2>>, 0, 1, ov.overlap)]
    /\ UNCHANGED <<frags, input, pass>>
    /\ UNCHANGED nonRaVars

\* --------------------------------------------------- spellcheck machines
\* the words of at most n letters over the alphabet, the empty one included
\* (the recursion of edit_dist reaches it)
WordsUpTo(n) == UNION {StringsOfLen(l) : l \in 0..n}

NoEditDist == [s1 |-> <<>>, s2 |-> <<>>, max_edit_dist_allowed |-> 0,
               called |-> FALSE, ret |-> 0]

Call_edit_dist ==
    /\ ~ed.called
    /\ ed.max_edit_dist_allowed >= 0
    /\ ed' = [ed EXCEPT !.called = TRUE,
                        !.ret = edit_dist(ed.s1, ed.s2, ed.max_edit_dist_allowed)]
    /\ UNCHANGED containerVars
    /\ UNCHANGED progVars

\* The spellcheck program (main of the cvector version): `doc` is what is
\* left to read of the document, `sp` the position of main: "word" (single
\* word given), "collect" (in collect_misspellings), "loop" (at the head of
\* the loop over the misspellings), "spell" (in the loop of spellcheck over
\* the corpus words, `visited` being the ones cmap_first / cmap_next have
\* handed out and `skipped` the ones the loop took its `continue` for) and
\* "done".  leader_board is the local of main's loop body: it is NoBoard
\* outside of it.
NoBoard == [impl |-> "none", status |-> "none"]

Main(pc, argv2, print_correct_words) ==
    [pc |-> pc, argv2 |-> argv2, print_correct_words |-> print_correct_words,
     wordp |-> NullSlot, visited |-> {}, skipped |-> {},
     max_edit_dist_allowed |-> 0,
     corpus_disposed |-> FALSE]

WordAt(wordp) == misspellings.base[wordp + 1].str

\* main, a single word given: lines 358-369
main_single_word ==
    /\ sp.pc = "word"
    /\ LET dup == strdup(heap, s_tolower(sp.argv2))
           appended == legacy_cvec_append(misspellings, dup.ptr)
       IN /\ heap' = dup.heap
          /\ misspellings' = appended
          /\ sp' = [sp EXCEPT !.pc = "loop", !.print_correct_words = TRUE,
                              !.wordp = legacy_cvec_first(appended)]
    /\ UNCHANGED <<corpus_map, doc, leader_board, printed>>
    /\ UNCHANGED containerVars
    /\ UNCHANGED edVars

\* one call of read_word by collect_misspellings and what it leads to
Call_collect_misspellings ==
    /\ sp.pc = "collect"
    /\ IF doc = <<>>
       THEN /\ sp' = [sp EXCEPT !.pc = "loop",
                                !.wordp = legacy_cvec_first(misspellings)]
            /\ UNCHANGED <<doc, misspellings, heap>>
       ELSE LET buf == Head(doc)
                word == strdup(heap, s_tolower(buf)).ptr
                appended == legacy_cvec_append(misspellings, word)
            IN \E order \in qsort_words(appended.base, appended.count) :
                 LET r == collect_misspellings_round(corpus_map, misspellings,
                                                     heap, buf, order)
                 IN /\ misspellings' = r.misspellings
                    /\ heap' = r.heap
                    /\ doc' = Tail(doc)
                    /\ UNCHANGED sp
    /\ UNCHANGED <<corpus_map, leader_board, printed>>
    /\ UNCHANGED containerVars
    /\ UNCHANGED edVars

\* the head of main's loop for the next misspelling, up to the loop of
\* spellcheck
main_spellcheck ==
    /\ sp.pc = "loop"
    /\ sp.wordp # NullSlot
    /\ LET created == legacy_cvec_create(LEADER_BOARD_CAPACITY_HINT, TRUE)
           word == WordAt(sp.wordp)
       IN IF is_found(corpus_map, word)
          THEN /\ printed' = IF sp.print_correct_words
                             THEN Append(printed, [word |-> word, correct |-> TRUE,
                                                   out |-> <<>>])
                             ELSE printed
               /\ leader_board' = NoBoard
               /\ sp' = [sp EXCEPT !.wordp = legacy_cvec_next(misspellings, sp.wordp)]
          ELSE /\ leader_board' = created
               /\ sp' = [sp EXCEPT !.pc = "spell", !.visited = {},
                                   !.skipped = {},
                                   !.max_edit_dist_allowed = MAX_STRING_LENGTH]
               /\ UNCHANGED printed
    /\ UNCHANGED <<corpus_map, doc, misspellings, heap>>
    /\ UNCHANGED containerVars
    /\ UNCHANGED edVars

\* one round of the loop of spellcheck: cmap_first / cmap_next hand out a
\* corpus word not handed out before, in an order the map decides
spellcheck_loop ==
    /\ sp.pc = "spell"
    /\ \E corpus_word \in (DOMAIN corpus_map) \ sp.visited :
         LET word == WordAt(sp.wordp)
             d == edit_dist(corpus_word, word, sp.max_edit_dist_allowed)
             unsorted == leader_board_unsorted(corpus_map, leader_board, heap,
                                               corpus_word, d)
         IN \E order \in qsort_corrections(unsorted.base, unsorted.count) :
              LET r == spellcheck_round(corpus_map, leader_board, heap, word,
                                        corpus_word, sp.max_edit_dist_allowed,
                                        order)
              IN /\ leader_board' = r.leader_board
                 /\ heap' = r.heap
                 /\ sp' = [sp EXCEPT !.visited = sp.visited \cup {corpus_word},
                                     !.skipped = IF d > MAX_STRING_LENGTH
                                                 THEN sp.skipped \cup {corpus_word}
                                                 ELSE sp.skipped,
                                     !.max_edit_dist_allowed = r.ret]
    /\ UNCHANGED <<corpus_map, doc, misspellings, printed>>
    /\ UNCHANGED containerVars
    /\ UNCHANGED edVars

\* the corpus is exhausted: spellcheck prints the board, main disposes of it
spellcheck_print ==
    /\ sp.pc = "spell"
    /\ sp.visited = DOMAIN corpus_map
    /\ LET disposed == legacy_cvec_dispose(leader_board)
       IN /\ printed' = Append(printed, [word |-> WordAt(sp.wordp),
                                         correct |-> FALSE,
                                         out |-> print_leader_board(leader_board)])
          /\ leader_board' = NoBoard
          /\ heap' = cleanup_leader_board(heap, NewCleaned(leader_board, disposed))
          /\ sp' = [sp EXCEPT !.pc = "loop",
                              !.wordp = legacy_cvec_next(misspellings, sp.wordp)]
    /\ UNCHANGED <<corpus_map, doc, misspellings>>
    /\ UNCHANGED containerVars
    /\ UNCHANGED edVars

\* no misspelling is left: main disposes of the vector and of the map
main_exit ==
    /\ sp.pc = "loop"
    /\ sp.wordp = NullSlot
    /\ LET disposed == legacy_cvec_dispose(misspellings)
       IN /\ misspellings' = disposed
          /\ heap' = cleanup_misspellings(heap, NewCleaned(misspellings, disposed))
          /\ sp' = [sp EXCEPT !.pc = "done", !.corpus_disposed = TRUE]
    /\ UNCHANGED <<corpus_map, doc, leader_board, printed>>
    /\ UNCHANGED containerVars
    /\ UNCHANGED edVars

\* the sequence-container machine has no map, the map machine no vector
NoTwoCMaps ==
    /\ lc = [NewWorld EXCEPT !.status = "none"]
    /\ lcall = LCall("none", 0, <<>>, NULL)
    /\ lamap = <<>>

NoMap ==
    /\ NoTwoCMaps
    /\ cm = [impl |-> "none", status |-> "none"]
    /\ mcall = MCall("none", <<>>, 0, TRUE, NULL)
    /\ iter = NULL
    /\ nextVal = 1
    /\ amap = <<>>

NoHashSet ==
    /\ hs = [impl |-> "none", status |-> "none"]
    /\ hcall = HCall("none", 0, TRUE, NULL)
    /\ entered = <<>>

NoReassemble ==
    /\ frags = [a |-> <<>>, n_elems |-> 0, status |-> "none"]
    /\ input = <<>>
    /\ pass = NoPass
    /\ ov = NoOverlap

NoProgram ==
    /\ corpus_map = <<>>
    /\ doc = <<>>
    /\ misspellings = NoBoard
    /\ leader_board = NoBoard
    /\ heap = NewHeap
    /\ sp = Main("none", <<>>, FALSE)
    /\ printed = <<>>

NoSpellcheck ==
    /\ ed = NoEditDist
    /\ NoProgram

NoVector ==
    /\ v = [impl |-> "none", status |-> "none"]
    /\ call = Call("none", 0, 0, TRUE, -1)
    /\ abs = <<>>
    /\ n_ins = 0
    /\ n_rem = 0
    /\ nextId = 1
    /\ capacity_hint = 0
    /\ walk = <<>>

InitCMap ==
    /\ \E h \in 0..MaxBucketHint, fn \in BOOLEAN, cn \in BOOLEAN :
         cm \in {cmap_create(h, fn, cn), legacy_cmap_create(h, fn)}
    /\ mcall = MCall("create", <<>>, 0, cm.status = "live", NULL)
    /\ iter = NULL
    /\ nextVal = 1
    /\ amap = <<>>
    /\ NoTwoCMaps
    /\ NoVector
    /\ NoHashSet
    /\ NoReassemble
    /\ NoSpellcheck

NextCMap ==
    \/ Call_cmap_put \/ Call_cmap_get \/ Call_cmap_dispose
    \/ Call_legacy_cmap_put \/ Call_legacy_cmap_get \/ Call_legacy_cmap_remove
    \/ Call_legacy_cmap_dispose

SpecCMap == InitCMap /\ [][NextCMap]_vars

\* two legacy cmaps in one process: the state after the first cmap_create,
\* for every value size, bucket hint and cleanup choice
InitTwoCMaps ==
    /\ \E valuesz \in 1..MaxValueWords, h \in 0..MaxBucketHint, fn \in BOOLEAN :
         lc = layout_cmap_create(NewWorld, valuesz, h, fn)
    /\ lcall = LCall("create", 1, <<>>, NULL)
    /\ lamap = << <<>> >>
    /\ cm = [impl |-> "none", status |-> "none"]
    /\ mcall = MCall("none", <<>>, 0, TRUE, NULL)
    /\ iter = NULL
    /\ nextVal = 1
    /\ amap = <<>>
    /\ NoVector
    /\ NoHashSet
    /\ NoReassemble
    /\ NoSpellcheck

NextTwoCMaps ==
    \/ Call_layout_cmap_create \/ Call_layout_cmap_put
    \/ Call_layout_cmap_get \/ Call_layout_cmap_remove

SpecTwoCMaps == InitTwoCMaps /\ [][NextTwoCMaps]_vars

\* traversal of either cmap: the map is built by put and remove, and walked
\* by cmap_first and cmap_next with the key pointer returned last
NextCMapWalk ==
    \/ Call_cmap_put \/ Call_cmap_first \/ Call_cmap_next
    \/ Call_legacy_cmap_put \/ Call_legacy_cmap_remove
    \/ Call_legacy_cmap_first \/ Call_legacy_cmap_next

SpecCMapWalk == InitCMap /\ [][NextCMapWalk]_vars

\* vector.c and cvector.c: the state after construction, for either
\* implementation and every hint and cleanup choice
Init ==
    /\ capacity_hint \in 0..MaxHint
    /\ \E ff \in BOOLEAN, cn \in BOOLEAN :
         v \in {vector_new(ff, capacity_hint),
                cvec_create(capacity_hint, ff, cn)}
    /\ call = Call("create", 0, 0, v.status = "live", -1)
    /\ abs = <<>>
    /\ n_ins = 0
    /\ n_rem = 0
    /\ nextId = 1
    /\ walk = <<>>
    /\ NoMap
    /\ NoHashSet
    /\ NoReassemble
    /\ NoSpellcheck

Next ==
    \/ Call_vector_insert \/ Call_vector_append \/ Call_vector_elem_replace
    \/ Call_vector_elem_delete \/ Call_vector_nth \/ Call_vector_sort
    \/ Call_vector_search \/ Call_vector_dispose
    \/ Call_cvec_insert \/ Call_cvec_append \/ Call_cvec_elem_replace
    \/ Call_cvec_elem_remove \/ Call_cvec_nth \/ Call_cvec_sort
    \/ Call_cvec_search \/ Call_cvec_dispose

Spec == Init /\ [][Next]_vars

\* the legacy vector, after VectorNew, for every hint and cleanup choice
InitLegacy ==
    /\ capacity_hint \in 0..MaxHint
    /\ \E ff \in BOOLEAN : v = VectorNew(ff, capacity_hint)
    /\ call = Call("create", 0, 0, v.status = "live", -1)
    /\ abs = <<>>
    /\ n_ins = 0
    /\ n_rem = 0
    /\ nextId = 1
    /\ walk = <<>>
    /\ NoMap
    /\ NoHashSet
    /\ NoReassemble
    /\ NoSpellcheck

NextLegacy ==
    \/ Call_VectorInsert \/ Call_VectorAppend \/ Call_VectorReplace
    \/ Call_VectorDelete \/ Call_VectorNth \/ Call_VectorSort
    \/ Call_VectorSearch \/ Call_VectorDispose

SpecLegacy == InitLegacy /\ [][NextLegacy]_vars

\* traversal of a CVector (cvector.c and the legacy cvec), after creation
\* for every hint and cleanup choice
InitWalk ==
    /\ capacity_hint \in 0..MaxHint
    /\ \E ff \in BOOLEAN, cn \in BOOLEAN :
         v \in {cvec_create(capacity_hint, ff, cn),
                legacy_cvec_create(capacity_hint, ff)}
    /\ call = Call("create", 0, 0, v.status = "live", -1)
    /\ abs = <<>>
    /\ n_ins = 0
    /\ n_rem = 0
    /\ nextId = 1
    /\ walk = <<>>
    /\ NoMap
    /\ NoHashSet
    /\ NoReassemble
    /\ NoSpellcheck

NextWalk ==
    \/ Call_cvec_insert \/ Call_cvec_append \/ Call_cvec_elem_replace
    \/ Call_cvec_elem_remove \/ Call_cvec_dispose
    \/ Call_cvec_first \/ Call_cvec_next
    \/ Call_legacy_cvec_insert \/ Call_legacy_cvec_append
    \/ Call_legacy_cvec_replace \/ Call_legacy_cvec_remove
    \/ Call_legacy_cvec_dispose
    \/ Call_legacy_cvec_first \/ Call_legacy_cvec_next

SpecWalk == InitWalk /\ [][NextWalk]_vars

\* the two hashsets, after hashset_new / HashSetNew for every bucket count
\* and cleanup choice
InitHashSet ==
    /\ \E nb \in 0..MaxBucketHint, ff \in BOOLEAN :
         hs \in {hashset_new(nb, ff), HashSetNew(nb, ff)}
    /\ hcall = HCall("new", 0, hs.status = "live", NULL)
    /\ entered = <<>>
    /\ NoVector
    /\ NoMap
    /\ NoReassemble
    /\ NoSpellcheck

NextHashSet ==
    \/ Call_hashset_enter \/ Call_hashset_lookup \/ Call_hashset_dispose
    \/ Call_HashSetEnter \/ Call_HashSetLookup \/ Call_HashSetDispose

SpecHashSet == InitHashSet /\ [][NextHashSet]_vars

\* reassemble.c after read_all_frags: every file of 1..MaxFrags fragments
\* (main exits on a file without fragments)
InitReassemble ==
    /\ \E n \in 1..MaxFrags : input \in FragArrays(n, MaxTotalLen)
    /\ frags = [a |-> input, n_elems |-> Len(input), status |-> "live"]
    /\ pass = NoPass
    /\ ov = NoOverlap
    /\ NoVector
    /\ NoMap
    /\ NoHashSet
    /\ NoSpellcheck

NextReassemble == Call_reassemble_pass \/ main_print

SpecReassemble == InitReassemble /\ [][NextReassemble]_vars

\* find_max_overlap, about to be called with two fragments
InitOverlap ==
    /\ \E s1 \in WordsUpTo(MaxFragLen) \ {<<>>}, s2 \in WordsUpTo(MaxFragLen) \ {<<>>} :
         ov = [pc |-> "start", s1 |-> s1, s2 |-> s2, overlap |-> 0, a |-> <<>>]
    /\ frags = [a |-> <<>>, n_elems |-> 0, status |-> "none"]
    /\ input = <<>>
    /\ pass = NoPass
    /\ NoVector
    /\ NoMap
    /\ NoHashSet
    /\ NoSpellcheck

NextOverlap == Call_find_max_overlap \/ Call_merge

SpecOverlap == InitOverlap /\ [][NextOverlap]_vars

\* edit_dist, about to be called with two words and a budget
InitEditDist ==
    /\ \E s1 \in WordsUpTo(MaxWordLen), s2 \in WordsUpTo(MaxWordLen),
          b \in (0..MaxBudget) \cup {MAX_STRING_LENGTH} :
         ed = [s1 |-> s1, s2 |-> s2, max_edit_dist_allowed |-> b,
               called |-> FALSE, ret |-> 0]
    /\ NoVector
    /\ NoMap
    /\ NoHashSet
    /\ NoReassemble
    /\ NoProgram

NextEditDist == Call_edit_dist

SpecEditDist == InitEditDist /\ [][NextEditDist]_vars

\* the sample words of the corpus files and the words given to the program
CorpusWords == {<<97>>, <<65>>, <<98>>, <<97, 98>>, <<98, 97>>, <<98, 97, 98>>}
InputWords == {<<97>>, <<97, 97>>, <<65, 97>>, <<97, 98, 98>>}

\* the files of exactly n words, and of at most n words
RECURSIVE FilesOfLen(_, _)
FilesOfLen(words, n) ==
    IF n = 0 THEN {<<>>}
    ELSE {Append(f, w) : f \in FilesOfLen(words, n - 1), w \in words}

Files(words, n) == UNION {FilesOfLen(words, l) : l \in 0..n}

\* the maps build_map makes of the corpus files of exactly n words, and of
\* at most MaxCorpusLen words
RECURSIVE CorpusMapsOfLen(_)
CorpusMapsOfLen(n) ==
    IF n = 0 THEN {build_map(<<>>)}
    ELSE {build_map_round(m, w) : m \in CorpusMapsOfLen(n - 1), w \in CorpusWords}

CorpusMaps == UNION {CorpusMapsOfLen(l) : l \in 0..MaxCorpusLen}

\* sample corpus files for the runs on a document
SampleCorpusFiles ==
    {<<>>,
     <<<<97>>>>,
     <<<<97>>, <<98>>, <<97, 98>>, <<98, 97>>>>,
     <<<<97>>, <<65>>, <<98>>, <<97, 98>>, <<98, 97>>, <<98, 97, 98>>>>}

\* spellcheck run on a single word: the corpus map is built, the vector of
\* misspellings created
InitSpellcheckWord ==
    /\ corpus_map \in CorpusMaps
    /\ doc = <<>>
    /\ misspellings = legacy_cvec_create(WORDS_CAPACITY_HINT, TRUE)
    /\ leader_board = NoBoard
    /\ heap = NewHeap
    /\ \E argv2 \in InputWords : sp = Main("word", argv2, FALSE)
    /\ printed = <<>>
    /\ ed = NoEditDist
    /\ NoVector
    /\ NoMap
    /\ NoHashSet
    /\ NoReassemble

NextSpellcheckWord ==
    \/ main_single_word
    \/ main_spellcheck
    \/ spellcheck_loop
    \/ spellcheck_print
    \/ main_exit

SpecSpellcheckWord == InitSpellcheckWord /\ [][NextSpellcheckWord]_vars

\* spellcheck run on a document
InitSpellcheckDoc ==
    /\ \E file \in SampleCorpusFiles : corpus_map = build_map(file)
    /\ doc \in Files(InputWords, MaxDocWords)
    /\ misspellings = legacy_cvec_create(WORDS_CAPACITY_HINT, TRUE)
    /\ leader_board = NoBoard
    /\ heap = NewHeap
    /\ sp = Main("collect", <<>>, FALSE)
    /\ printed = <<>>
    /\ ed = NoEditDist
    /\ NoVector
    /\ NoMap
    /\ NoHashSet
    /\ NoReassemble

NextSpellcheckDoc ==
    \/ Call_collect_misspellings
    \/ main_spellcheck
    \/ spellcheck_loop
    \/ spellcheck_print
    \/ main_exit

SpecSpellcheckDoc == InitSpellcheckDoc /\ [][NextSpellcheckDoc]_vars

\* ================================================================== claims
IsSeqImpl == v.impl \in {"vector", "cvec"}

\* nth of the implementation at hand, and the element its result points to
Nth(w, i) == IF w.impl = "vector" THEN vector_nth(w, i)
             ELSE IF w.impl = "cvec" THEN cvec_nth(w, i)
             ELSE VectorNth(w, i)
NoDuplicates(s) == \A i, j \in 1..Len(s) : i # j => s[i] # s[j]

\* C1: in vector.c and cvector.c, created with a positive hint, after any
\* sequence of valid insert/append/replace/remove calls the count is the
\* number of inserts and appends minus the number of removes, and nth(i)
\* is element i of the abstract list that underwent the same operations,
\* also across growths.
C1_RefinesAbstractList ==
    (IsSeqImpl /\ capacity_hint > 0 /\ v.status = "live") =>
        /\ Count(v) = n_ins - n_rem
        /\ Count(v) = Len(abs)
        /\ \A i \in 0..(Count(v) - 1) :
             /\ Nth(v, i).ok
             /\ v.elems[Nth(v, i).ret + 1] = abs[i + 1]

C1_Witness ==
    /\ v.impl = "vector" /\ capacity_hint > 0 /\ v.status = "live"
    /\ v.internal_length > capacity_hint
    /\ n_rem >= 1
    /\ call.op = "insert" /\ call.pos = 0
    /\ v.logical_length = 2

\* C2: in every reachable state of a vector.c or cvector.c container
\* (whatever calls were made, sort and search included) the logical length
\* is between 0 and the recorded capacity.
C2_LengthWithinCapacity ==
    IsSeqImpl => (0 <= v.logical_length /\ v.logical_length <= v.internal_length)

C2_Witness ==
    /\ IsSeqImpl /\ v.status = "live"
    /\ v.internal_length > capacity_hint /\ capacity_hint > 0
    /\ v.logical_length = v.internal_length
    /\ call.op = "sort"

\* C3: cvec_create with hint 0 yields a container whose buffer holds as many
\* slots as the recorded default capacity, so that the appends that follow
\* write inside the buffer.
C3_DefaultBufferAllocated ==
    (v.impl = "cvec" /\ capacity_hint = 0 /\ v.status = "live") =>
        (v.n_slots = v.internal_length /\ ~v.oob)

\* C5: vector_nth and VectorNth fail for every position outside [0, count):
\* a call that returns was given the position of a live element.
C5_NthOnlyLiveElements ==
    (v.impl \in {"vector", "Vector"} /\ call.op = "nth" /\ call.ok) =>
        call.pos \in 0..(v.logical_length - 1)

\* C6: cvec_nth on an empty CVector fails for every index.
C6_NthOnEmptyFails ==
    (v.impl = "cvec" /\ call.op = "nth" /\ v.logical_length = 0) => ~call.ok

\* C7: in every container state and for every element, append(e) gives
\* exactly the state insert(e, count) gives (elements, count, capacity),
\* also when the call grows the buffer, in vector.c and in cvector.c.
C7_AppendIsInsertAtCount ==
    (IsSeqImpl /\ v.status = "live") =>
        \A e \in 1..(MaxElems + 1) :
            IF v.impl = "vector"
            THEN vector_append(v, e) = vector_insert(v, e, v.logical_length)
            ELSE cvec_append(v, e) = cvec_insert(v, e, v.logical_length)

C7_Witness ==
    /\ v.impl = "vector" /\ v.status = "live"
    /\ call.op = "append"
    /\ capacity_hint > 0 /\ v.internal_length > capacity_hint
    /\ v.logical_length = v.internal_length

\* C8: with a cleanup function set, replace(e, i) and remove(i) call the
\* cleanup exactly once, on the element that was at index i before the call;
\* no element that is stored in the container has been cleaned up, and no
\* element is cleaned up twice.
C8_CleanupOfReplacedOrRemoved ==
    /\ [](v.status = "live" =>
            /\ \A i \in 1..v.logical_length : v.elems[i] \notin Range(v.cleaned)
            /\ NoDuplicates(v.cleaned))
    /\ [][(v.free_fun /\ call'.op \in {"replace", "remove"} /\ v'.status = "live")
            => v'.cleaned = Append(v.cleaned, v.elems[call'.pos + 1])]_vars

C8_Witness ==
    /\ v.impl = "vector" /\ v.free_fun /\ v.status = "live"
    /\ call.op = "replace"
    /\ Len(v.cleaned) = 2
    /\ v.logical_length >= 1

\* C9: vector_dispose and cvec_dispose call the cleanup function (when set)
\* exactly once on each live element in ascending index order, on no other
\* slot, and then free the buffer exactly once.
C9_DisposeCleansLiveThenFrees ==
    /\ [](IsSeqImpl => (v.freed = IF v.status = "disposed" THEN 1 ELSE 0))
    /\ [][(IsSeqImpl /\ call'.op = "dispose")
            => /\ v'.cleaned = v.cleaned \o (IF v.free_fun THEN abs ELSE <<>>)
               /\ v'.freed = v.freed + 1]_vars

C9_Witness ==
    /\ v.impl = "vector" /\ v.status = "disposed" /\ v.free_fun
    /\ v.logical_length = 2 /\ v.logical_length < v.internal_length
    /\ Len(v.cleaned) = 3

\* C10: VectorDispose frees the element buffer exactly once, whether or not
\* a cleanup function was supplied.
C10_LegacyDisposeFreesBuffer ==
    (v.impl = "Vector" /\ v.status = "disposed") => v.freed = 1

\* C4: cmap_create with hint 0 yields a map whose bucket array holds as many
\* slots as the recorded default bucket count, so that every bucket slot the
\* calls that follow (put, get, first, dispose) use is inside the array.
C4_DefaultBucketsAllocated ==
    (cm.impl = "cmap" /\ cm.status \in {"live", "disposed"}
        /\ cm.n_buckets = default_capacity) =>
        (cm.n_alloc = cm.n_buckets /\ ~cm.oob)

\* sanity of the hash arithmetic on known values of the C function
HashKnownValues ==
    /\ hash(<<97>>, 1023) = 97
    /\ hash(<<97, 98>>, 1023) = 546
    /\ hash(<<97, 98, 99>>, 1023) = 969
    /\ hash(<<122, 122, 122, 122>>, 1023) = 624
    /\ hash(<<104, 101, 108, 108, 111>>, 1023) = 282
    /\ hash(<<97, 98>>, 4) = 3
    /\ hash(<<97, 98, 99>>, 4) = 2
    /\ hash(<<98>>, 3) = 2

\* search of the implementation at hand
Search(w, key, start, sorted) ==
    IF w.impl = "vector" THEN vector_search(w, key, start, sorted)
    ELSE IF w.impl = "cvec" THEN cvec_search(w, key, start, sorted)
    ELSE VectorSearch(w, key, start, sorted)
SearchKeys == 0..(NumKeys - 1)

\* C11: search fails exactly when start_index is outside
\* [0, count]; start_index == count on a non-empty container is accepted and
\* gives -1.
C11_SearchAcceptsUpToCount ==
    (IsSeqImpl /\ v.status = "live") =>
        \A key \in SearchKeys, start \in Positions(v), sorted \in BOOLEAN :
            /\ Search(v, key, start, sorted).ok <=> start \in 0..Count(v)
            /\ start = Count(v) => Search(v, key, start, sorted).ret = -1

\* number of stored elements that compare equal to the key
Matches(w, key) == {i \in 1..Count(w) : compare(key, w.elems[i]) = 0}

\* C12 (as claimed): on a container that has just been sorted, the binary
\* search from 0 returns the same index as the linear scan from 0 for every
\* key (so -1 for a key equal to no element), and the index is in
\* [0, count) or -1.
C12_SortedSearchIsLinearScan ==
    (IsSeqImpl /\ v.status = "live" /\ call.op = "sort") =>
        \A key \in SearchKeys :
            /\ Search(v, key, 0, TRUE).ok
            /\ Search(v, key, 0, TRUE).ret = Search(v, key, 0, FALSE).ret
            /\ Search(v, key, 0, TRUE).ret \in -1..(Count(v) - 1)

\* C12 (amended): on a container that has just been sorted, the binary
\* search from 0 returns the index of an element that compares equal to the
\* key when there is one (the index the linear scan returns when exactly one
\* element compares equal), and -1 when there is none; the index is in
\* [0, count) or -1.
C12_SortedSearchFindsAMatch ==
    (IsSeqImpl /\ v.status = "live" /\ call.op = "sort") =>
        \A key \in SearchKeys :
            LET b == Search(v, key, 0, TRUE)
                l == Search(v, key, 0, FALSE)
            IN /\ b.ok /\ l.ok
               /\ b.ret \in -1..(Count(v) - 1)
               /\ (Matches(v, key) = {}) <=> (b.ret = -1)
               /\ b.ret # -1 => (b.ret + 1) \in Matches(v, key)
               /\ Cardinality(Matches(v, key)) = 1 => b.ret = l.ret
               /\ (l.ret = -1) <=> (b.ret = -1)

C12_Witness ==
    /\ v.impl = "vector" /\ v.status = "live" /\ call.op = "sort"
    /\ Count(v) = 2
    /\ \E key \in SearchKeys :
          /\ Cardinality(Matches(v, key)) = 2
          /\ Search(v, key, 0, TRUE).ret # Search(v, key, 0, FALSE).ret

\* the slots a complete traversal returns: 0 .. count - 1, then NULL
FullWalk(w) == [i \in 1..(Count(w) + 1) |-> IF i <= Count(w) THEN i - 1 ELSE NullSlot]
IsPrefix(s, t) == Len(s) <= Len(t) /\ \A i \in 1..Len(s) : s[i] = t[i]
\* the elements the traversal has visited so far
Visited == [i \in 1..(IF walk # <<>> /\ walk[Len(walk)] = NullSlot
                      THEN Len(walk) - 1 ELSE Len(walk)) |-> Elems(v)[walk[i] + 1]]

\* C13: with no mutation during the traversal, cvec_first followed by
\* repeated cvec_next visits exactly the count live elements, each once, in
\* ascending index order (the insertion order after appends only) and then
\* returns NULL; cvec_first on an empty container returns NULL; cvec_first
\* called again restarts the same sequence.
C13_TraversalVisitsAllInOrder ==
    (v.impl \in {"cvec", "legacy_cvec"} /\ v.status = "live") =>
        /\ IsPrefix(walk, FullWalk(v))
        /\ IsPrefix(Visited, abs)
        /\ (walk # <<>> /\ walk[Len(walk)] = NullSlot) =>
               /\ Len(walk) = Count(v) + 1
               /\ Visited = abs
               /\ Count(v) = Len(abs)
        /\ (Count(v) = 0) <=>
               (IF v.impl = "cvec" THEN cvec_first(v) ELSE legacy_cvec_first(v)) = NullSlot
        /\ (call.op \in {"first", "next"} /\ Len(walk) = 1) => walk[1] = FullWalk(v)[1]

C13_Witness ==
    /\ v.impl = "cvec" /\ v.status = "live"
    /\ Count(v) = 3 /\ n_rem = 0
    /\ call.op = "next"
    /\ walk = <<0, 1, 2, NullSlot>>
    /\ Visited = <<1, 2, 3>>

\* ------------------------------------------------------------ claims on cmap
IsMapImpl == cm.impl \in {"cmap", "legacy_cmap"}
\* created with a positive bucket hint (the legacy cmap allocates nbucket
\* slots for every hint)
PositiveHint == cm.impl = "legacy_cmap" \/ (cm.impl = "cmap" /\ cm.n_alloc > 0)
CleanFn(m) == IF m.impl = "legacy_cmap" THEN m.fn ELSE m.clean

\* get, put, first, next of the implementation at hand; Get gives the entry
\* whose value pointer is returned (NULL if none)
Get(m, key) == IF m.impl = "legacy_cmap" THEN legacy_cmap_get(m, key)
               ELSE cmap_get(m, key).ret
GetValue(m, key) == IF Get(m, key) = NULL THEN NULL ELSE m.nodes[Get(m, key)].value
Put(m, key, val) == IF m.impl = "legacy_cmap" THEN legacy_cmap_put(m, key, val)
                    ELSE cmap_put(m, key, val)
First(m) == IF m.impl = "legacy_cmap" THEN legacy_cmap_first(m) ELSE cmap_first(m).ret
NextKey(m, keyp) == IF m.impl = "legacy_cmap" THEN legacy_cmap_next(m, keyp).ret
                    ELSE cmap_next(m, keyp).ret

RECURSIVE EnumerateFrom(_, _, _)
\* the key pointers a traversal returns from keyp on, NULL excluded (at most
\* `fuel` of them)
EnumerateFrom(m, keyp, fuel) ==
    IF keyp = NULL \/ fuel = 0 THEN <<>>
    ELSE <<keyp>> \o EnumerateFrom(m, NextKey(m, keyp), fuel - 1)
Enumerate(m) == EnumerateFrom(m, First(m), m.n_nodes + 1)
KeysOf(m, entries) == [k \in 1..Len(entries) |-> m.nodes[entries[k]].key]
\* the bucket slot whose chain holds the entry
BucketOf(m, entry) == CHOOSE i \in DOMAIN Slots(m) : entry \in Range(Chain(m, Slots(m)[i]))

\* C14: in both cmaps created with a positive bucket hint, after any
\* sequence of put and remove calls get(k) returns the value of the most
\* recent put(k, .) not followed by remove(k), and NULL for a key never put or
\* removed since its last put, across every rehash.
C14_GetReturnsLastPut ==
    (IsMapImpl /\ PositiveHint /\ cm.status = "live") =>
        \A key \in Keys : GetValue(cm, key) = MapGet(amap, key)

C14_Witness ==
    /\ cm.impl = "legacy_cmap" /\ cm.status = "live"
    /\ cm.rehashed >= 1
    /\ mcall.op = "get" /\ mcall.ret = NULL
    /\ mcall.key \in Range(KeysOf(cm, cm.freed_entries))
    /\ Len(amap) >= 1

\* C15: in every reachable state of either cmap no key occurs in more than
\* one entry of the table, every entry is chained in bucket hash(key) mod the
\* current bucket count, and count is the number of entries over all chains.
C15_UniqueKeysInTheirBuckets ==
    (IsMapImpl /\ cm.status = "live") =>
        /\ NoDuplicates(KeysOf(cm, AllEntries(cm, 0)))
        /\ \A i \in DOMAIN Slots(cm) :
             /\ i \in 0..(NBuckets(cm) - 1)
             /\ \A n \in Range(Chain(cm, Slots(cm)[i])) :
                  hash(cm.nodes[n].key, NBuckets(cm)) = i
        /\ cm.count = Len(AllEntries(cm, 0))

C15_Witness ==
    /\ cm.impl = "legacy_cmap" /\ cm.status = "live"
    /\ cm.rehashed = 1 /\ cm.nbucket = 3
    /\ cm.count = 3
    /\ mcall.op = "put"

\* C16: cmap_put(k, v) for a key already present calls the cleanup function
\* (when set) exactly once, on the old value of k, stores v as the value of
\* k, leaves count, every other entry and the order of the entries of every
\* chain unchanged (k keeps its position), and does not rehash.
C16_PutOnPresentKeyOverwrites ==
    (IsMapImpl /\ cm.status = "live") =>
        \A key \in Keys :
            Get(cm, key) # NULL =>
                LET r == Put(cm, key, nextVal)
                IN /\ r.status = "live"
                   /\ r.cleaned = IF CleanFn(cm)
                                  THEN Append(cm.cleaned, GetValue(cm, key))
                                  ELSE cm.cleaned
                   /\ GetValue(r, key) = nextVal
                   /\ r.count = cm.count
                   /\ NBuckets(r) = NBuckets(cm)
                   /\ DOMAIN Slots(r) = DOMAIN Slots(cm)
                   /\ \A i \in DOMAIN Slots(cm) :
                        KeysOf(r, Chain(r, Slots(r)[i])) = KeysOf(cm, Chain(cm, Slots(cm)[i]))
                   /\ \A other \in Keys \ {key} : GetValue(r, other) = GetValue(cm, other)

C16_Witness ==
    /\ cm.impl = "legacy_cmap" /\ cm.status = "live"
    /\ mcall.op = "put" /\ mcall.key = <<97>>
    /\ cm.nbucket = 2 /\ cm.count = 2
    /\ KeysOf(cm, Chain(cm, Bucket(cm, 1))) = <<<<97, 98>>, <<97>>>>
    /\ cm.fn /\ cm.cleaned = <<1>>
    /\ GetValue(cm, <<97>>) = 3

\* C17: in the legacy cmap, cmap_remove(k) for an absent key changes
\* nothing: count, bucket count, every chain (hence the first/next
\* enumeration) are the same, and no cleanup call or free happens; removing
\* a present key twice in a row has the effect of removing it once.
C17_RemoveAbsentIsNoOp ==
    (cm.impl = "legacy_cmap" /\ cm.status = "live") =>
        \A key \in Keys :
            LET r == legacy_cmap_remove(cm, key)
            IN /\ MapGet(amap, key) = NULL =>
                     /\ r = cm
                     /\ Enumerate(r) = Enumerate(cm)
               /\ legacy_cmap_remove(r, key) = r

C17_Witness ==
    /\ cm.impl = "legacy_cmap" /\ cm.status = "live"
    /\ mcall.op = "remove" /\ mcall.key = <<97>>
    /\ cm.nbucket = 2 /\ cm.count = 1
    /\ KeysOf(cm, Chain(cm, Bucket(cm, 1))) = <<<<97, 98>>>>
    /\ cm.freed_entries = <<>>

InsertionRank(key) == MapIndex(amap, key, 1)

C20_DisposeReclaimsEverything ==
    (IsMapImpl /\ PositiveHint /\ mcall.op = "dispose") =>
        /\ cm.status = "disposed"
        /\ NoDuplicates(cm.freed_entries)
        /\ Range(cm.freed_entries) = 1..cm.n_nodes
        /\ cm.cm_freed = 1
        /\ (IF cm.impl = "legacy_cmap" THEN cm.base_freed - cm.rehashed
            ELSE cm.buckets_freed) = 1
        /\ NoDuplicates(cm.cleaned)
        /\ Range(cm.cleaned) = IF CleanFn(cm) THEN 1..(nextVal - 1) ELSE {}

\* the same for the current cmap alone: its bucket walk reclaims everything
CurrentDisposeReclaimsEverything ==
    cm.impl = "cmap" => C20_DisposeReclaimsEverything

\* ------------------------------------------------------------- hashsets
IsHashSetImpl == hs.impl \in {"hashset", "HashSet"} /\ hs.status = "live"

Lookup(h, e) == IF h.impl = "hashset" THEN hashset_lookup(h, e) ELSE HashSetLookup(h, e)
HsCount(h) == IF h.impl = "hashset" THEN hashset_count(h) ELSE HashSetCount(h)

\* the most recently entered element that compares equal to e; NULL if none
RECURSIVE LastEqual(_, _, _)
LastEqual(s, e, i) ==
    IF i = 0 THEN NULL
    ELSE IF compare(s[i], e) = 0 THEN s[i]
    ELSE LastEqual(s, e, i - 1)

\* entered elements that a later equal element took the place of
Superseded == {e \in Range(entered) : LastEqual(entered, e, Len(entered)) # e}

\* the cleanup calls of all the buckets
RECURSIVE CleanedUpTo(_, _)
CleanedUpTo(h, i) == IF i = 0 THEN <<>> ELSE CleanedUpTo(h, i - 1) \o h.array[i].cleaned
HsCleaned(h) == CleanedUpTo(h, h.n_buckets)

HsCleansUp(h) == h.n_buckets > 0 /\ h.array[1].free_fun

\* C21: after any sequence of enters into the hashset (either version),
\* lookup of e returns the most recently entered element comparing equal to
\* e, or NULL when none was entered; count is the number of pairwise-unequal
\* elements entered; an enter of an element equal to a stored one replaces
\* it, with one cleanup call on the old one, and leaves the count alone.
C21_HashSetRefinesSet ==
    IsHashSetImpl =>
        /\ \A e \in 1..MaxElems :
             /\ Lookup(hs, e).ok
             /\ Lookup(hs, e).ret = LastEqual(entered, e, Len(entered))
        /\ HsCount(hs) = Cardinality({Key(e) : e \in Range(entered)})
        /\ \A e \in 1..MaxElems :
             Cardinality({i \in 1..Len(HsCleaned(hs)) : HsCleaned(hs)[i] = e})
               = IF HsCleansUp(hs) /\ e \in Superseded THEN 1 ELSE 0

\* an element took the place of an equal one in a bucket of two elements,
\* with a cleanup function, and a lookup has returned an element
C21_Witness ==
    /\ IsHashSetImpl
    /\ HsCleansUp(hs)
    /\ Superseded # {}
    /\ \E i \in 1..hs.n_buckets : hs.array[i].logical_length >= 2
    /\ hcall.op = "lookup"
    /\ hcall.ret # NULL
    /\ hcall.ret = LastEqual(entered, hcall.elem, Len(entered))

\* ------------------------------------------------------- legacy cmap rehash
IsLegacyCMap == cm.impl = "legacy_cmap" /\ cm.status = "live"

\* C29: a put into the legacy cmap re-chains the table exactly when it
\* inserts a new key and brings count to at least 2 * bucket_count, and the
\* bucket count then becomes 2 * bucket_count + 1; after every put count is
\* below 2 * bucket_count, and no put or remove lowers the bucket count.
C29_RehashExactlyAtLoadTwo ==
    IsLegacyCMap =>
        /\ cm.count < 2 * cm.nbucket
        /\ \A key \in Keys :
             LET m == legacy_cmap_put(cm, key, nextVal)
                 inserts == MapGet(amap, key) = NULL
                 rehashes == m.rehashed = cm.rehashed + 1
             IN /\ m.rehashed \in {cm.rehashed, cm.rehashed + 1}
                /\ rehashes <=> (inserts /\ cm.count + 1 >= 2 * cm.nbucket)
                /\ rehashes <=>
                     (inserts /\ ((cm.count + 1) \div cm.nbucket) >= REHASH_LOAD)
                /\ m.nbucket = IF rehashes THEN 2 * cm.nbucket + 1 ELSE cm.nbucket
                /\ m.count < 2 * m.nbucket
                /\ m.nbucket >= cm.nbucket
                /\ legacy_cmap_remove(cm, key).nbucket = cm.nbucket

\* a put has just re-chained the table, and a put on a stored key at the
\* same load would not
C29_Witness ==
    /\ IsLegacyCMap
    /\ mcall.op = "put"
    /\ cm.rehashed = 1
    /\ cm.nbucket = 3
    /\ cm.count = 2

\* the (key, value) pairs stored in the chains of the map
Pairs(m) == {<<m.nodes[n].key, m.nodes[n].value>> : n \in Range(AllEntries(m, 0))}

\* C30: the rehash a put triggers keeps the stored cells: the pairs are the
\* old ones and the one put, count is the number of cells, no cell is
\* duplicated, lost, cleaned up or freed, every cell is chained in the bucket
\* its key hashes to under the new bucket count, and the one block freed is
\* the old bucket array.
C30_RehashPreservesContent ==
    IsLegacyCMap =>
        \A key \in Keys :
            LET m == legacy_cmap_put(cm, key, nextVal)
            IN m.rehashed = cm.rehashed + 1 =>
                 /\ Pairs(m) = Pairs(cm) \cup {<<key, nextVal>>}
                 /\ m.count = cm.count + 1
                 /\ m.count = Len(AllEntries(m, 0))
                 /\ NoDuplicates(AllEntries(m, 0))
                 /\ Range(AllEntries(m, 0)) = Range(AllEntries(cm, 0)) \cup {m.n_nodes}
                 /\ \A n \in Range(AllEntries(cm, 0)) :
                      /\ m.nodes[n].key = cm.nodes[n].key
                      /\ m.nodes[n].value = cm.nodes[n].value
                 /\ m.cleaned = cm.cleaned
                 /\ m.freed_entries = cm.freed_entries
                 /\ \A i \in DOMAIN Slots(m) :
                      /\ i \in 0..(m.nbucket - 1)
                      /\ \A n \in Range(Chain(m, Slots(m)[i])) :
                           hash(m.nodes[n].key, m.nbucket) = i
                 /\ m.base_freed = cm.base_freed + 1
                 /\ m.cm_freed = cm.cm_freed

\* a put has re-chained a table of two cells that now share a bucket
C30_Witness ==
    /\ IsLegacyCMap
    /\ mcall.op = "put"
    /\ cm.rehashed = 1
    /\ cm.base_freed = 1
    /\ \E i \in DOMAIN Slots(cm) : Len(Chain(cm, Slots(cm)[i])) = 2

\* ------------------------------------------------------------- reassemble
\* the live (non-NULL) entries of the array
LiveFrags(a) == {k \in 1..Len(a) : a[k] # NoFrag}
Contains(outer, inner) == strstr(outer, inner) # -1
PassRan == pass.n_elems >= 2

\* progress of the passes that return, and the end of reassemble
ReturnedPassMakesProgress ==
    /\ (PassRan /\ frags.status = "live") =>
          (pass.ret >= 1 /\ pass.ret < pass.n_elems)
    /\ frags.status = "printed" =>
          (frags.n_elems = 1 /\ LiveFrags(frags.a) = {1})
    /\ (frags.status = "printed" /\ Len(input) = 1) =>
          (pass = NoPass /\ frags.a = input)

\* C22: a pass over n_elems >= 2 live fragments returns a count of at least
\* 1 and below n_elems (also with best overlap 0 and when containment
\* resolves every pair), so reassemble ends with exactly one live fragment,
\* at index 0; a single input fragment sees no pass and is left unchanged.
C22_PassMakesProgress ==
    /\ frags.status # "aborted"
    /\ ReturnedPassMakesProgress

\* C23: for two input fragments of which one is a substring of the other,
\* reassemble removes the contained one without a merge and ends with the
\* containing fragment, unmodified, as the single output.
C23_ContainedFragmentEliminated ==
    (Len(input) = 2 /\ PassRan
       /\ (Contains(input[1], input[2]) \/ Contains(input[2], input[1]))) =>
        /\ frags.status # "aborted"
        /\ pass.first_in_merge = -1 /\ pass.second_in_merge = -1
        /\ frags.n_elems = 1
        /\ frags.a[1] = IF Contains(input[1], input[2]) THEN input[1] ELSE input[2]
        /\ LiveFrags(frags.a) = {1}

\* C24: after every pass that returns, every fragment of the input is a
\* substring of at least one live fragment of the array, the fragment
\* printed at the end included.
C24_InputFragmentsStayCovered ==
    frags.status \in {"live", "printed"} =>
        \A k \in 1..Len(input) :
            \E l \in LiveFrags(frags.a) : Contains(frags.a[l], input[k])

\* a pass has removed a contained fragment and merged two overlapping ones
C24_Witness ==
    /\ frags.status = "live"
    /\ pass.n_elems = 3
    /\ pass.ret = 1
    /\ pass.first_in_merge >= 0
    /\ pass.max_overlap >= 1
    /\ \A k \in 1..3 : Len(frags.a[1]) > Len(input[k])

\* -------------------------------------------------------------- edit_dist
RECURSIVE Levenshtein(_, _)
\* the edit distance with insert, delete and substitute at cost 1 each
Levenshtein(s1, s2) ==
    IF s1 = <<>> THEN Len(s2)
    ELSE IF s2 = <<>> THEN Len(s1)
    ELSE LET del == Levenshtein(Tail(s1), s2) + 1
             ins == Levenshtein(s1, Tail(s2)) + 1
             sub == Levenshtein(Tail(s1), Tail(s2))
                      + (IF Head(s1) = Head(s2) THEN 0 ELSE 1)
         IN IF del <= ins /\ del <= sub THEN del
            ELSE IF ins <= sub THEN ins ELSE sub

TrueDist == Levenshtein(ed.s1, ed.s2)

DistanceTable ==
    [p \in {s_tolower(w) : w \in CorpusWords} \X {s_tolower(w) : w \in InputWords}
       |-> Levenshtein(p[1], p[2])]

Precedes(u, w, word) ==
    LET du == DistanceTable[<<u, word>>]
        dw == DistanceTable[<<w, word>>]
    IN \/ du < dw
       \/ du = dw /\ corpus_map[u] > corpus_map[w]
       \/ du = dw /\ corpus_map[u] = corpus_map[w] /\ strcmp(u, w) < 0

Rank(w, word) == Cardinality({u \in DOMAIN corpus_map : Precedes(u, w, word)})

\* the first min(MAX_RESULTS, corpus size) corpus words in that order
Best(word) ==
    LET k == IF Cardinality(DOMAIN corpus_map) < MAX_RESULTS
             THEN Cardinality(DOMAIN corpus_map) ELSE MAX_RESULTS
    IN [i \in 1..k |-> CHOOSE w \in DOMAIN corpus_map : Rank(w, word) = i - 1]

\* C27: for every corpus and every word not in it, whatever order the corpus
\* words are enumerated in, the line spellcheck prints lists exactly the
\* first min(MAX_RESULTS, corpus size) corpus words by ascending true edit
\* distance, then descending frequency, then ascending strcmp, in that
\* order: the budget never makes the loop skip one of them.
C27_LeaderBoardIsTopK ==
    \A i \in 1..Len(printed) :
        ~printed[i].correct => printed[i].out = Best(printed[i].word)

\* a full board printed for a corpus of more words, the loop having skipped
\* a corpus word on the budget
C27_Witness ==
    /\ sp.pc = "loop"
    /\ printed # <<>>
    /\ Len(printed[Len(printed)].out) = MAX_RESULTS
    /\ Cardinality(DOMAIN corpus_map) > MAX_RESULTS
    /\ sp.skipped # {}
    /\ sp.skipped \cap Range(printed[Len(printed)].out) = {}

\* the blocks whose pointers the vector of misspellings holds
StoredBlocks ==
    {misspellings.base[i].blk : i \in 1..legacy_cvec_count(misspellings)}

\* no block is freed twice, and at the end of main the two vector blocks of
\* the misspellings are freed and the corpus map disposed of
VectorsDisposedOnce ==
    /\ \A b \in 1..Len(heap.frees) : heap.frees[b] <= 1
    /\ sp.pc = "done" =>
           /\ misspellings.freed = 1
           /\ misspellings.cv_freed = 1
           /\ leader_board = NoBoard
           /\ sp.corpus_disposed

\* when main is done with a single word, every string block is freed once
SingleWordRunFreesEverything ==
    /\ VectorsDisposedOnce
    /\ sp.pc = "done" => \A b \in 1..Len(heap.frees) : heap.frees[b] = 1

\* C28: a run over a document ends with every heap block freed exactly once:
\* while collect_misspellings reads, every word string it duplicated is in
\* the vector of misspellings or already freed (words already in the vector
\* and words found in the corpus included), and when main is done every
\* string block (words and Correction strings) has been freed exactly once.
C28_EveryBlockFreedOnce ==
    /\ VectorsDisposedOnce
    /\ sp.pc = "collect" =>
           \A b \in 1..Len(heap.frees) : b \in StoredBlocks \/ heap.frees[b] = 1
    /\ sp.pc = "done" => \A b \in 1..Len(heap.frees) : heap.frees[b] = 1

\* ------------------------------------------------- capacity of the vectors
\* the capacity vector_new / cvec_create record for the hint of the run
CapacityAtCreation ==
    IF capacity_hint = 0
    THEN (IF v.impl = "vector" THEN default_internal_length
          ELSE cvec_default_internal_length)
    ELSE capacity_hint

\* what one growth makes of the recorded capacity
GrownOnce ==
    IF v.impl = "vector" THEN v.internal_length + CapacityAtCreation
    ELSE 2 * v.internal_length

\* C31: the recorded capacity never decreases and changes only in an insert
\* or append called with count = capacity; remove, replace, sort, search
\* (and nth, dispose) leave it as it is; one growth adds the increment
\* chosen at creation in vector.c and doubles the capacity in cvector.c, and
\* an insert or append grows at most once.
C31_CapacityGrowsOnlyOnFullInsert ==
    [][/\ v'.internal_length >= v.internal_length
       /\ v'.internal_length # v.internal_length =>
              /\ call'.op \in {"insert", "append"}
              /\ v.logical_length = v.internal_length
              /\ v'.internal_length = GrownOnce
       /\ v.impl = "vector" => v'.n_elems_grow_by = CapacityAtCreation]_vars

\* a cvector created with capacity 1 has doubled twice, a vector created
\* with capacity 1 has grown by one twice
C31_Witness ==
    /\ v.status = "live"
    /\ capacity_hint = 1
    /\ v.logical_length = 3
    /\ v.internal_length = (IF v.impl = "vector" THEN 3 ELSE 4)
    /\ call.op \in {"insert", "append"}

\* --------------------------------------------------- find_max_overlap alone
\* the lengths k >= 1 for which the first k characters of s1 are the last k
\* characters of s2
Overlaps(s1, s2) ==
    {k \in 1..Len(s1) :
        /\ k <= Len(s2)
        /\ \A i \in 1..k : s1[i] = s2[Len(s2) - k + i]}

LongestOverlap(s1, s2) ==
    IF Overlaps(s1, s2) = {} THEN 0
    ELSE CHOOSE k \in Overlaps(s1, s2) : \A l \in Overlaps(s1, s2) : l <= k

Unrelated(s1, s2) == ~Contains(s1, s2) /\ ~Contains(s2, s1)

\* C33: when neither of s1 and s2 is a substring of the other,
\* find_max_overlap(s1, s2) is the length of the longest non-empty prefix of
\* s1 that is a suffix of s2, 0 when there is none; merge with that overlap
\* leaves a string of length len(s1) + len(s2) - overlap that starts with s2
\* and ends with s1.
C33_OverlapIsLongestAndMergeJoins ==
    Unrelated(ov.s1, ov.s2) =>
        /\ ov.pc \in {"overlap", "merged"} =>
               ov.overlap = LongestOverlap(ov.s1, ov.s2)
        /\ ov.pc = "merged" =>
               LET result == ov.a[1]
                   n == Len(result)
               IN /\ n = Len(ov.s1) + Len(ov.s2) - ov.overlap
                  /\ \A i \in 1..Len(ov.s2) : result[i] = ov.s2[i]
                  /\ \A i \in 1..Len(ov.s1) :
                         result[n - Len(ov.s1) + i] = ov.s1[i]

\* two fragments merged on an overlap that is not the first candidate
\* find_max_overlap tries
C33_Witness ==
    /\ ov.pc = "merged"
    /\ Unrelated(ov.s1, ov.s2)
    /\ ov.overlap >= 1
    /\ ov.overlap < Len(ov.s2) - strchr(ov.s2, 0, ov.s1[1])

\* ----------------------------------------------------- the pair that merges
\* the pass called merge on two entries that were both live
MergePerformed ==
    /\ PassRan
    /\ pass.first_in_merge >= 0
    /\ pass.second_in_merge >= 0
    /\ ~pass.null_read

\* C32: the pair merged at the end of a pass has the largest prefix/suffix
\* overlap of all ordered pairs of fragments live when merge is called: the
\* recorded overlap is the overlap of the merged pair, the live fragments
\* are mutually non-contained and no ordered pair of them overlaps by more
\* (so the pruning test skipped no pair that would have beaten the maximum).
C32_MergedPairHasMaxOverlap ==
    MergePerformed =>
        LET a == pass.at_merge
        IN /\ pass.max_overlap = LongestOverlap(a[pass.first_in_merge + 1],
                                                a[pass.second_in_merge + 1])
           /\ \A k \in LiveFrags(a), l \in LiveFrags(a) :
                  k # l => /\ Unrelated(a[k], a[l])
                           /\ LongestOverlap(a[k], a[l]) <= pass.max_overlap

\* a merge on a positive overlap, of a pair that is not the first one
\* examined, with a third live fragment that overlaps by less
C32_Witness ==
    /\ MergePerformed
    /\ frags.status = "live"
    /\ pass.max_overlap >= 1
    /\ <<pass.first_in_merge, pass.second_in_merge>> \notin {<<0, 1>>, <<1, 0>>}
    /\ Cardinality(LiveFrags(pass.at_merge)) = 3

\* ------------------------------------------- the indices a pass works on
\* C36: a pass reads, frees and writes array entries at indices in
\* [0, n_elems) only: nullify_entry and merge are never applied to the index
\* -1 of a pass without a merge candidate.
C36_EntriesInsideArray ==
    PassRan => /\ ~pass.oob
               /\ pass.first_in_merge \in 0..(pass.n_elems - 1)
               /\ pass.second_in_merge \in 0..(pass.n_elems - 1)

\* C37: when a pass calls merge with non-negative indices, both entries are
\* live: no containment check after the candidate was recorded has nullified
\* one of them.
C37_MergeCandidatesLive ==
    (PassRan /\ pass.first_in_merge >= 0 /\ pass.second_in_merge >= 0) =>
        /\ ~pass.null_read
        /\ pass.at_merge[pass.first_in_merge + 1] # NoFrag
        /\ pass.at_merge[pass.second_in_merge + 1] # NoFrag

\* ------------------------------------------------- buckets of the hashset
\* the live elements of bucket vector w ascend strictly under compare
StrictlyAscending(w) ==
    \A i \in 1..w.logical_length, j \in 1..w.logical_length :
        i < j => compare(w.elems[i], w.elems[j]) < 0

RECURSIVE BucketLengthsUpTo(_, _)
BucketLengthsUpTo(h, i) ==
    IF i = 0 THEN 0 ELSE BucketLengthsUpTo(h, i - 1) + h.array[i].logical_length

\* C38: in every reachable state of the hashset on the vector each bucket is
\* sorted ascending under comp_fun with no two elements that compare equal
\* (so the binary searches of enter and lookup run on a sorted range), and
\* count is the sum of the buckets' lengths.
C38_BucketsSortedAndCounted ==
    (hs.impl = "hashset" /\ hs.status = "live") =>
        /\ \A b \in 1..hs.n_buckets : StrictlyAscending(hs.array[b])
        /\ hs.count = BucketLengthsUpTo(hs, hs.n_buckets)

\* a bucket of two elements whose larger one was entered first, after an
\* enter that replaced an element
C38_Witness ==
    /\ hs.impl = "hashset" /\ hs.status = "live"
    /\ \E b \in 1..hs.n_buckets : hs.array[b].logical_length >= 2
    /\ Len(entered) >= 3
    /\ compare(entered[1], entered[2]) > 0
    /\ hcall.op = "enter"
    /\ hs.count < Len(entered)

\* --------------------------------------------- removal from the legacy cvec
\* C39: cvec_remove of the legacy cvec touches element slots inside the
\* allocated buffer [0, capacity) only, for every index in [0, count), also
\* when the vector is full: its block move takes the count - index - 1
\* elements after the removed one.
C39_RemoveStaysInsideBuffer ==
    [][(/\ v.impl = "legacy_cvec" /\ v.status = "live" /\ ~v.oob
        /\ call'.op = "remove"
        /\ call'.pos \in 0..(v.count - 1)) => ~v'.oob]_vars

\* ------------------------------------------------ disposal of the legacy cmap
\* C35: cmap_dispose of the legacy cmap reads no entry after its free: the
\* key its loop passes to cmap_next belongs to a cell that is still
\* allocated.
C35_DisposeReadsNoFreedEntry ==
    (cm.impl = "legacy_cmap" /\ mcall.op = "dispose") => ~cm.uaf

\* ------------------------------------------- the static cm of the legacy cmap
\* C34: after cmap_create returns, the operations on a legacy cmap locate a
\* cell's next pointer and key with that map's own value size, so that a
\* second map with another value size changes no result on the first: no
\* call runs into undefined behaviour and every get returns the value of
\* the last put of its key not followed by a remove, NULL if there is none.
C34_OtherMapLeavesResultsAlone ==
    /\ lc.status \in {"none", "live"}
    /\ lcall.op \in {"put", "get", "remove"} =>
           StaticValuesz(lc) = lc.maps[lcall.map].valuesz
    /\ lcall.op = "get" => lcall.ret = MapGet(lamap[lcall.map], lcall.key)
====
